---- MODULE Spec2Model ----
(***************************************************************************)
(* Transformation compiler (backend/app/services/compiler.py),             *)
(* validation executor (backend/app/services/executor.py), project store   *)
(* (backend/app/services/project_manager.py) and routes (backend/app/api)  *)
(* of dataforge-studio.                                                    *)
(*                                                                         *)
(* Strings are sequences of tokens.  A template is the sequence of its     *)
(* literal pieces and its placeholders ("{col}", "{pattern}", ...); an     *)
(* expression is the sequence of tokens obtained by filling templates.     *)
(* Values supplied by the user (column name, regex pattern, condition,     *)
(* custom expression, ...) are single opaque tokens, the empty string      *)
(* being the empty sequence.  str.format, str.replace, str.startswith,     *)
(* str.lstrip and str.join are modelled on token sequences.                *)
(***************************************************************************)
EXTENDS Integers, Sequences, FiniteSets, TLC

VARIABLES
    column,           \* compile_column: the Column argument
    target,           \* compile_column: the target argument
    dialect,          \* compile_column: the dialect argument
    pc,               \* compile_column: "call", "loop", "return" or "done"
    step_i,           \* compile_column: index of the loop over TRANSFORM_ORDER
    expr,             \* compile_column: local expr
    warnings,         \* compile_column: local warnings
    pyspark_applied,  \* compile_column: local pyspark_applied
    result,           \* compile_column: the returned dict (NoResult before)
    table_spec,       \* table assemblers: the table_spec argument
    project_config,   \* table assemblers: the project_config argument
    table_dialect,    \* table assemblers: the dialect argument
    artifact,         \* table assemblers: the returned dict (NoArtifact before)
    assembler,        \* assembler loop: the assembler in progress, or "none"
    col_i,            \* assembler loop: index of the loop over the columns
    loop_results,     \* assembler loop: local col_results, as built so far
    eargs,            \* execute_sql, per caller: query, data, table_name
    epc,              \* execute_sql, per caller: position in the call
    econn,            \* execute_sql, per caller: local conn (0 before connect)
    eresult,          \* execute_sql, per caller: the returned dict
    conns,            \* the in-memory engine instances created so far
    vcall,            \* executor methods: the last call and its arguments
    vout,             \* executor methods: what the last call returned
    disk,             \* project store: the directories and files on disk
    reply             \* project store: the last operation and its outcome

\* the variables of a compile_column call
cvars == <<column, target, dialect, pc, step_i, expr, warnings,
           pyspark_applied, result>>

\* the variables of a table assembler call
tvars == <<table_spec, project_config, table_dialect, artifact>>

\* the variables of the loop of an assembler over the columns
avars == <<assembler, col_i, loop_results>>

\* the variables of the execute_sql calls
evars == <<eargs, epc, econn, eresult, conns>>

\* the variables of the calls of the other executor methods
xvars == <<vcall, vout>>

\* the variables of the project store and of the requests served on it
svars == <<disk, reply>>

vars == <<cvars, tvars, avars, evars, xvars, svars>>

\* what a compile_column step leaves alone
NotColumnVars == <<tvars, avars, evars, xvars, svars>>

\* what a table assembler call leaves alone
NotTableVars == <<cvars, avars, evars, xvars, svars>>

\* what an execute_sql step leaves alone
NotExecVars == <<cvars, tvars, avars, xvars, svars>>

\* what a call of another executor method leaves alone
NotMethodVars == <<cvars, tvars, avars, evars, svars>>

\* what an operation on the project store leaves alone
NotStoreVars == <<cvars, tvars, avars, evars, xvars>>

----------------------------------------------------------------------------
\* Bounds of the model

\* largest number of cases of a conditional transformation
MaxCases == 1

\* largest number of columns of a table
MaxCols == 3

\* largest number of engine instances created in a run (one per execute_sql)
MaxConns == 2

\* largest number of rows of synthetic data
MaxRows == 2

----------------------------------------------------------------------------
\* String helpers

\* a Python str value as a token sequence ("" is the empty sequence)
Str(v) == IF v = "" THEN <<>> ELSE <<v>>

RECURSIVE Flatten(_)
\* concatenation of a sequence of token sequences
Flatten(ss) ==
    IF ss = <<>> THEN <<>> ELSE Head(ss) \o Flatten(Tail(ss))

RECURSIVE Join(_, _)
\* sep.join(parts), parts a sequence of token sequences
Join(sep, parts) ==
    IF parts = <<>> THEN <<>>
    ELSE IF Len(parts) = 1 THEN parts[1]
    ELSE parts[1] \o sep \o Join(sep, Tail(parts))

\* tmpl.format(**binds): every placeholder token is replaced by its value
Format(tmpl, binds) ==
    Flatten([i \in 1..Len(tmpl) |->
                IF tmpl[i] \in DOMAIN binds THEN binds[tmpl[i]]
                ELSE <<tmpl[i]>>])

\* s.startswith(prefix)
StartsWith(s, prefix) ==
    /\ Len(s) >= Len(prefix)
    /\ SubSeq(s, 1, Len(prefix)) = prefix

RECURSIVE LStrip(_)
\* s.lstrip(): leading whitespace removed
LStrip(s) ==
    IF s # <<>> /\ Head(s) = " " THEN LStrip(Tail(s)) ELSE s

RECURSIVE Replace(_, _, _)
\* s.replace(old, new), leftmost non-overlapping occurrences
Replace(s, old, new) ==
    IF s = <<>> THEN <<>>
    ELSE IF StartsWith(s, old)
         THEN new \o Replace(SubSeq(s, Len(old) + 1, Len(s)), old, new)
         ELSE <<Head(s)>> \o Replace(Tail(s), old, new)

\* left-biased merge of two keyword dictionaries
Merge(f, g) ==
    [k \in DOMAIN f \cup DOMAIN g |-> IF k \in DOMAIN f THEN f[k] ELSE g[k]]

----------------------------------------------------------------------------
\* Template registry (app/services/templates.py)

\* order of the transformation steps
TRANSFORM_ORDER ==
    <<"trim", "strip_special", "regex", "case_normalization", "type_cast",
      "null_strategy", "where_filter", "conditional", "delimiter_split">>

\* a warning marker template
Warn(msg) == <<"__WARNING__:", " ", msg>>

\* (template key) -> (dialect) -> template; a missing entry is no template
TEMPLATES ==
    [trim |->
        [snowflake_sql |-> <<"TRIM(", "{col}", ")">>,
         tsql          |-> <<"LTRIM(RTRIM(", "{col}", "))">>,
         pyspark       |-> <<"F.trim(", "F.col('", "{col}", "')", ")">>],
     strip_special |->
        [snowflake_sql |-> <<"REGEXP_REPLACE(", "{col}", ", '[^a-zA-Z0-9 ]', '')">>,
         tsql          |-> Warn("strip_special needs REGEXP_REPLACE, not supported in T-SQL"),
         pyspark       |-> <<"F.regexp_replace(", "F.col('", "{col}", "')",
                             ", '[^a-zA-Z0-9 ]', '')">>],
     regex_replace |->
        [snowflake_sql |-> <<"REGEXP_REPLACE(", "{col}", ", '", "{pattern}",
                             "', '", "{repl}", "')">>,
         tsql          |-> Warn("REGEXP_REPLACE is not supported in T-SQL"),
         pyspark       |-> <<"F.regexp_replace(", "F.col('", "{col}", "')", ", '",
                             "{pattern}", "', '", "{repl}", "')">>],
     case_upper |->
        [snowflake_sql |-> <<"UPPER(", "{col}", ")">>,
         tsql          |-> <<"UPPER(", "{col}", ")">>,
         pyspark       |-> <<"F.upper(", "F.col('", "{col}", "')", ")">>],
     case_lower |->
        [snowflake_sql |-> <<"LOWER(", "{col}", ")">>,
         tsql          |-> <<"LOWER(", "{col}", ")">>,
         pyspark       |-> <<"F.lower(", "F.col('", "{col}", "')", ")">>],
     case_title |->
        [snowflake_sql |-> <<"INITCAP(", "{col}", ")">>,
         tsql          |-> <<>>,
         pyspark       |-> <<"F.initcap(", "F.col('", "{col}", "')", ")">>],
     cast_integer |->
        [snowflake_sql |-> <<"CAST(", "{col}", " AS INTEGER)">>,
         tsql          |-> <<"CAST(", "{col}", " AS INT)">>,
         pyspark       |-> <<"F.col('", "{col}", "')", ".cast('", "{type}", "')">>],
     cast_date |->
        [snowflake_sql |-> <<"TO_DATE(", "{col}", ", '", "{format}", "')">>,
         tsql          |-> <<"CAST(", "{col}", " AS DATE)">>,
         pyspark       |-> <<"F.to_date(", "F.col('", "{col}", "')", ")">>],
     null_replace |->
        [snowflake_sql |-> <<"COALESCE(", "{col}", ", '", "{replacement}", "')">>,
         tsql          |-> <<"ISNULL(", "{col}", ", '", "{replacement}", "')">>,
         pyspark       |-> <<"F.coalesce(", "F.col('", "{col}", "')", ", F.lit('",
                             "{replacement}", "'))">>],
     null_drop |->
        [snowflake_sql |-> Warn("null drop is a row filter, not a column expression"),
         pyspark       |-> Warn("null drop: use df.dropna on the dataframe")],
     null_flag |->
        [snowflake_sql |-> <<"IFF(", "{col}", " IS NULL, 1, 0)">>,
         tsql          |-> <<"IIF(", "{col}", " IS NULL, 1, 0)">>,
         pyspark       |-> <<"F.col('", "{col}", "')", ".isNull()">>],
     where_filter |->
        [snowflake_sql |-> <<"CASE WHEN ", "{condition}", " THEN ", "{col}", " END">>,
         tsql          |-> <<"CASE WHEN ", "{condition}", " THEN ", "{col}", " END">>,
         pyspark       |-> <<"F.when(F.expr('", "{condition}", "'), ",
                             "F.col('", "{col}", "')", ")">>],
     conditional_case |->
        [snowflake_sql |-> <<"CASE ", "{col}", " ", "{cases}", " ELSE '",
                             "{else_value}", "' END">>,
         tsql          |-> <<"CASE ", "{col}", " ", "{cases}", " ELSE '",
                             "{else_value}", "' END">>,
         pyspark       |-> Warn("conditional case: build it with F.when on the dataframe")],
     delimiter_split |->
        [snowflake_sql |-> <<"SPLIT_PART(", "{col}", ", '", "{delimiter}", "', ",
                             "{index}", ")">>,
         tsql          |-> Warn("SPLIT_PART is not supported in T-SQL"),
         pyspark       |-> <<"F.split(", "F.col('", "{col}", "')", ", '",
                             "{delimiter}", "').getItem(", "{index}", ")">>]]

----------------------------------------------------------------------------
\* compile_column (app/services/compiler.py)

\* literal that signals an unsupported operation
WARNING_PREFIX == <<"__WARNING__:">>

\* the F.col('{col}') pattern of the PySpark templates
PYSPARK_COL_PATTERN == <<"F.col('", "{col}", "')">>

\* TEMPLATES.get(template_key, {}).get(tgt_dialect, "")
TemplateGet(template_key, tgt_dialect) ==
    IF template_key \in DOMAIN TEMPLATES
    THEN IF tgt_dialect \in DOMAIN TEMPLATES[template_key]
         THEN TEMPLATES[template_key][tgt_dialect]
         ELSE <<>>
    ELSE <<>>

\* an effective dialect that is always the caller's
TgtDialectCaller(tgt, dia) == dia

\* tgt_dialect = "pyspark" if target == "pyspark" else dialect
TgtDialect(tgt, dia) == IF tgt = "pyspark" THEN "pyspark" ELSE dia

\* an initial expression that is the column name for every target
InitialExprName(name, tgt) == Str(name)

\* initial expression: the raw column reference
InitialExpr(name, tgt) ==
    IF tgt = "pyspark" THEN <<"F.col('">> \o Str(name) \o <<"')">> ELSE Str(name)

\* the locals of compile_column that _apply reads and writes
Locals(e, w, pa) == [expr |-> e, warnings |-> w, pyspark_applied |-> pa]

\* a dataframe fill that never chains: every step is filled like the first
PysparkFillNeverChain(tmpl, st, name, extra) ==
    Format(tmpl, Merge([x \in {"{col}"} |-> Str(name)], extra))

\* a dataframe fill whose first step puts the initial expression into the
\* template without rewriting the bare-reference pattern
PysparkFillFirstUnrewritten(tmpl, st, name, extra) ==
    IF ~st.pyspark_applied
    THEN Format(tmpl, Merge([x \in {"{col}"} |-> st.expr], extra))
    ELSE Format(Replace(tmpl, PYSPARK_COL_PATTERN, <<"{col}">>),
                Merge([x \in {"{col}"} |-> st.expr], extra))

\* filled template of the PySpark branch of _apply
PysparkFill(tmpl, st, name, extra) ==
    IF ~st.pyspark_applied
    THEN Format(tmpl, Merge([x \in {"{col}"} |-> Str(name)], extra))
    ELSE Format(Replace(tmpl, PYSPARK_COL_PATTERN, <<"{col}">>),
                Merge([x \in {"{col}"} |-> st.expr], extra))

\* a fill with the bare column name instead of the accumulated expression
SqlFillBareName(tmpl, st, name, extra) ==
    Format(tmpl, Merge([x \in {"{col}"} |-> Str(name)], extra))

\* filled template of the non-PySpark branch of _apply
SqlFill(tmpl, st, name, extra) ==
    Format(tmpl, Merge([x \in {"{col}"} |-> st.expr], extra))

\* warnings.append(tmpl[len(_WARNING_PREFIX):].lstrip())
WarningAppend(w, tmpl) ==
    Append(w, LStrip(SubSeq(tmpl, Len(WARNING_PREFIX) + 1, Len(tmpl))))

\* _apply without the return after the warning: the marker is also filled
\* in as if it were a pattern
ApplyWarningFallsThrough(st, name, tgt, tgt_dialect, template_key, extra) ==
    LET tmpl == TemplateGet(template_key, tgt_dialect) IN
    IF tmpl = <<>> THEN st
    ELSE LET w == IF StartsWith(tmpl, WARNING_PREFIX)
                  THEN WarningAppend(st.warnings, tmpl) ELSE st.warnings
         IN IF tgt = "pyspark"
            THEN [st EXCEPT !.warnings = w,
                            !.expr = PysparkFill(tmpl, st, name, extra),
                            !.pyspark_applied = TRUE]
            ELSE [st EXCEPT !.warnings = w,
                            !.expr = SqlFill(tmpl, st, name, extra)]

\* _apply that reports a missing template as a warning
ApplyMissingWarns(st, name, tgt, tgt_dialect, template_key, extra) ==
    LET tmpl == TemplateGet(template_key, tgt_dialect) IN
    IF tmpl = <<>>
    THEN [st EXCEPT !.warnings = Append(st.warnings, <<"no template">>)]
    ELSE IF StartsWith(tmpl, WARNING_PREFIX)
    THEN [st EXCEPT !.warnings = WarningAppend(st.warnings, tmpl)]
    ELSE IF tgt = "pyspark"
    THEN [st EXCEPT !.expr = PysparkFill(tmpl, st, name, extra),
                    !.pyspark_applied = TRUE]
    ELSE [st EXCEPT !.expr = SqlFill(tmpl, st, name, extra)]

\* _apply(template_key, extra) on the locals st
Apply(st, name, tgt, tgt_dialect, template_key, extra) ==
    LET tmpl == TemplateGet(template_key, tgt_dialect) IN
    IF tmpl = <<>> THEN st
    ELSE IF StartsWith(tmpl, WARNING_PREFIX)
    THEN [st EXCEPT !.warnings = WarningAppend(st.warnings, tmpl)]
    ELSE IF tgt = "pyspark"
    THEN [st EXCEPT !.expr = PysparkFill(tmpl, st, name, extra),
                    !.pyspark_applied = TRUE]
    ELSE [st EXCEPT !.expr = SqlFill(tmpl, st, name, extra)]

\* keyword dictionary with the placeholders of a template as keys
Extra(keys, vals) ==
    [k \in {keys[i] : i \in 1..Len(keys)} |->
        vals[CHOOSE i \in 1..Len(keys) : keys[i] = k]]

\* f"case_{t.case_normalization}"
CaseKey(mode) ==
    CASE mode = "upper" -> "case_upper"
      [] mode = "lower" -> "case_lower"
      [] mode = "title" -> "case_title"
      [] OTHER -> "case_"

\* f"cast_{t.type_cast}"
CastKey(type) ==
    CASE type = "integer" -> "cast_integer"
      [] type = "date" -> "cast_date"
      [] type = "uuid" -> "cast_uuid"
      [] OTHER -> "cast_"

\* " ".join(f"WHEN {c.when} THEN '{c.then}'" for c in t.conditional.cases)
CasesStr(cases) ==
    Join(<<" ">>,
         [i \in 1..Len(cases) |->
            <<"WHEN ">> \o Str(cases[i].when) \o <<" THEN '">>
                \o Str(cases[i].then) \o <<"'">>])

\* body of the loop over TRANSFORM_ORDER for one step
StepBody(step, st, col, tgt, tgt_dialect) ==
    LET t == col.transformations
        name == col.name
    IN
    CASE step = "trim" ->
            IF t.trim THEN Apply(st, name, tgt, tgt_dialect, "trim", <<>>)
            ELSE st
      [] step = "strip_special" ->
            IF t.strip_special_chars
            THEN Apply(st, name, tgt, tgt_dialect, "strip_special", <<>>)
            ELSE st
      [] step = "regex" ->
            IF t.regex.enabled
            THEN Apply(st, name, tgt, tgt_dialect, "regex_replace",
                       Extra(<<"{pattern}", "{repl}">>,
                             <<Str(t.regex.pattern), Str(t.regex.replacement)>>))
            ELSE st
      [] step = "case_normalization" ->
            IF t.case_normalization # "none"
            THEN Apply(st, name, tgt, tgt_dialect,
                       CaseKey(t.case_normalization), <<>>)
            ELSE st
      [] step = "type_cast" ->
            IF t.type_cast # ""
            THEN Apply(st, name, tgt, tgt_dialect, CastKey(t.type_cast),
                       Extra(<<"{type}", "{format}">>,
                             <<Str(t.type_cast), <<"YYYY-MM-DD">> >>))
            ELSE st
      [] step = "null_strategy" ->
            IF t.null_strategy = "replace"
            THEN Apply(st, name, tgt, tgt_dialect, "null_replace",
                       Extra(<<"{replacement}">>, <<Str(t.null_replacement)>>))
            ELSE IF t.null_strategy = "drop"
            THEN Apply(st, name, tgt, tgt_dialect, "null_drop", <<>>)
            ELSE IF t.null_strategy = "flag"
            THEN Apply(st, name, tgt, tgt_dialect, "null_flag", <<>>)
            ELSE st
      [] step = "where_filter" ->
            IF t.where_filter.enabled
            THEN Apply(st, name, tgt, tgt_dialect, "where_filter",
                       Extra(<<"{condition}">>, <<Str(t.where_filter.condition)>>))
            ELSE st
      [] step = "conditional" ->
            IF t.conditional.enabled /\ t.conditional.cases # <<>>
            THEN Apply(st, name, tgt, tgt_dialect, "conditional_case",
                       Extra(<<"{cases}", "{else_value}">>,
                             <<CasesStr(t.conditional.cases),
                               Str(t.conditional.else_value)>>))
            ELSE st
      [] step = "delimiter_split" ->
            IF t.delimiter_split.enabled
            THEN Apply(st, name, tgt, tgt_dialect, "delimiter_split",
                       Extra(<<"{delimiter}", "{index}">>,
                             <<Str(t.delimiter_split.delimiter),
                               Str(t.delimiter_split.index)>>))
            ELSE st
      [] OTHER -> st

\* the dict returned by compile_column
ColumnResult(col, e, w, tgt, dia) ==
    [column_name |-> col.name, expression |-> e, alias |-> col.name,
     warnings |-> w, target |-> tgt, dialect |-> dia]

RECURSIVE RunSteps(_, _, _, _, _)
\* the loop over TRANSFORM_ORDER from index i on
RunSteps(i, st, col, tgt, tgt_dialect) ==
    IF i > Len(TRANSFORM_ORDER) THEN st
    ELSE RunSteps(i + 1, StepBody(TRANSFORM_ORDER[i], st, col, tgt, tgt_dialect),
                  col, tgt, tgt_dialect)

\* compile_column(column, target, dialect) as one call
CompileColumn(col, tgt, dia) ==
    IF col.transformations.custom_expression # ""
    THEN ColumnResult(col, Str(col.transformations.custom_expression), <<>>,
                      tgt, dia)
    ELSE LET st == RunSteps(1, Locals(InitialExpr(col.name, tgt), <<>>, FALSE),
                            col, tgt, TgtDialect(tgt, dia))
         IN ColumnResult(col, st.expr, st.warnings, tgt, dia)

----------------------------------------------------------------------------
\* Table assemblers (app/services/compiler.py)

\* Column.model_validate(c): the Column built from a stored column dict
ModelValidate(c) ==
    [name |-> c.name, nullable |-> c.nullable,
     transformations |-> c.transformations]

\* d.get(key, default)
DictGet(d, key, default) == IF key \in DOMAIN d THEN d[key] ELSE default

\* [self.compile_column(Column.model_validate(c), target, dialect)
\*  for c in table_spec["columns"]]
ColResults(columns, tgt, dia) ==
    [i \in 1..Len(columns) |-> CompileColumn(ModelValidate(columns[i]), tgt, dia)]

\* a warnings list that keeps only the first warning of every column
FirstWarnings(col_results) ==
    Flatten([i \in 1..Len(col_results) |->
                IF col_results[i].warnings = <<>> THEN <<>>
                ELSE <<col_results[i].warnings[1]>>])

\* [w for r in col_results for w in r["warnings"]]
AllWarnings(col_results) ==
    Flatten([i \in 1..Len(col_results) |-> col_results[i].warnings])

\* select lines that leave out a column without transformation
SelectLinesChanged(sep, col_results) ==
    Join(sep,
         LET kept == SelectSeq(col_results,
                        LAMBDA r : r.expression # Str(r.alias))
         IN [i \in 1..Len(kept) |->
                kept[i].expression \o <<" AS ">> \o Str(kept[i].alias)])

\* sep.join(f"{r['expression']} AS {r['alias']}" for r in col_results)
SelectLines(sep, col_results) ==
    Join(sep,
         [i \in 1..Len(col_results) |->
            col_results[i].expression \o <<" AS ">> \o Str(col_results[i].alias)])

\* the qualified source reference of compile_table_sql
SourceRef(catalog, layer, table_name) ==
    IF catalog # ""
    THEN Str(catalog) \o <<".">> \o Str(layer) \o <<".">> \o Str(table_name)
    ELSE Str(layer) \o <<".">> \o Str(table_name)

\* compile_table_sql after the columns are compiled
CompileTableSqlFrom(ts, dia, cfg, results) ==
    LET table_name == ts.table.name
        layer == ts.table.layer
        catalog == DictGet(cfg, "catalog", "")
        source == SourceRef(catalog, layer, table_name)
        col_results == results
        all_warnings == AllWarnings(col_results)
        select_lines == SelectLines(<<",\n        ">>, col_results)
        sql == <<"WITH cleaned AS (\n", "    SELECT\n", "        ">>
               \o select_lines \o <<"\n", "    FROM ">> \o source
               \o <<"\n", ")\n", "SELECT * FROM cleaned">>
    IN [sql |-> sql, dialect |-> dia, warnings |-> all_warnings,
        columns |-> col_results]

\* compile_table_sql(table_spec, dialect, project_config)
CompileTableSqlResult(ts, dia, cfg) ==
    CompileTableSqlFrom(ts, dia, cfg, ColResults(ts.columns, "sql", dia))

\* a line of text: its leading blanks and the rest
Line(indent, text) == [indent |-> indent, text |-> text]

\* a variant of the {with_cols} lines that leaves out the columns whose
\* expression is the bare column reference
WithColumnLinesSkipsBare(col_results) ==
    LET IsChanged(r) == r.expression # <<"F.col('", r.alias, "')">>
        kept == SelectSeq(col_results, IsChanged)
    IN [i \in 1..Len(kept) |->
          Line(IF i = 1 THEN 20 ELSE 12,
               <<".withColumn('">> \o Str(kept[i].alias) \o <<"', ">>
                  \o kept[i].expression \o <<")">>)]

\* the lines of {with_cols} in the code block: the first one follows the
\* blanks of the block, the later ones the blanks of the separator
WithColumnLines(col_results) ==
    [i \in 1..Len(col_results) |->
        Line(IF i = 1 THEN 20 ELSE 12,
             <<".withColumn('">> \o Str(col_results[i].alias) \o <<"', ">>
                \o col_results[i].expression \o <<")">>)]

\* textwrap.dedent: the common margin of the non-blank lines is removed,
\* blank lines lose their blanks
Dedent(lines) ==
    LET full == {i \in 1..Len(lines) : lines[i].text # <<>>}
        margin == IF full = {} THEN 0
                  ELSE CHOOSE m \in {lines[i].indent : i \in full} :
                         \A i \in full : m <= lines[i].indent
    IN [i \in 1..Len(lines) |->
          IF lines[i].text = <<>> THEN Line(0, <<>>)
          ELSE Line(lines[i].indent - margin, lines[i].text)]

\* compile_table_pyspark after the columns are compiled
CompileTablePysparkFrom(ts, cfg, results) ==
    LET table_name == ts.table.name
        col_results == results
        all_warnings == AllWarnings(col_results)
        with_cols == IF col_results = <<>> THEN <<Line(20, <<>>)>>
                     ELSE WithColumnLines(col_results)
        code == Dedent(
            << Line(12, <<"from pyspark.sql import DataFrame">>),
               Line(12, <<"from pyspark.sql import functions as F">>),
               Line(0, <<>>),
               Line(0, <<>>),
               Line(12, <<"def clean_">> \o Str(table_name) \o <<"(">>),
               Line(16, <<"df: DataFrame,">>),
               Line(12, <<") -> DataFrame:">>),
               Line(16, <<"return (">>),
               Line(20, <<"df">>) >>
            \o with_cols
            \o << Line(16, <<")">>), Line(8, <<>>) >>)
    IN [code |-> code, warnings |-> all_warnings, columns |-> col_results]

\* compile_table_pyspark(table_spec, project_config)
CompileTablePysparkResult(ts, cfg) ==
    CompileTablePysparkFrom(ts, cfg,
                            ColResults(ts.columns, "pyspark", "pyspark"))

RECURSIVE SchemaColumnLinesTestsNullable(_, _)
\* a variant of the loop that writes the not_null test for the nullable
\* columns and the description for every column
SchemaColumnLinesTestsNullable(columns, notes) ==
    IF columns = <<>> THEN <<>>
    ELSE LET col == ModelValidate(Head(columns))
             note == DictGet(notes, col.name, "")
         IN << <<"      - name: ">> \o Str(col.name) >>
            \o << <<"        description: \"">> \o Str(note) \o <<"\"">> >>
            \o (IF col.nullable
                THEN << <<"        tests:">>, <<"          - not_null">> >>
                ELSE <<>>)
            \o SchemaColumnLinesTestsNullable(Tail(columns), notes)

RECURSIVE SchemaColumnLines(_, _)
\* the loop of _build_schema_yml over the columns
SchemaColumnLines(columns, notes) ==
    IF columns = <<>> THEN <<>>
    ELSE LET col == ModelValidate(Head(columns))
             note == DictGet(notes, col.name, "")
         IN << <<"      - name: ">> \o Str(col.name) >>
            \o (IF note # ""
                THEN << <<"        description: \"">> \o Str(note) \o <<"\"">> >>
                ELSE <<>>)
            \o (IF ~col.nullable
                THEN << <<"        tests:">>, <<"          - not_null">> >>
                ELSE <<>>)
            \o SchemaColumnLines(Tail(columns), notes)

\* _build_schema_yml(table_name, columns, notes): the lines of the document
BuildSchemaYml(table_name, columns, notes) ==
    << <<"version: 2">>, <<>>, <<"models:">>,
       <<"  - name: ">> \o Str(table_name), <<"    columns:">> >>
    \o SchemaColumnLines(columns, notes)

\* compile_table_dbt after the columns are compiled
CompileTableDbtFrom(ts, dia, cfg, results) ==
    LET table_name == ts.table.name
        layer == ts.table.layer
        notes == DictGet(ts, "notes", <<>>)
        col_results == results
        all_warnings == AllWarnings(col_results)
        select_lines == SelectLines(<<",\n    ">>, col_results)
        model_sql ==
            <<"WITH source AS (\n", "    SELECT * FROM {{ source('">>
            \o Str(layer) \o <<"', '">> \o Str(table_name) \o <<"') }}\n",
                                  "),\n", "cleaned AS (\n", "    SELECT\n", "    ">>
            \o select_lines
            \o <<"\n", "    FROM source\n", ")\n", "SELECT * FROM cleaned">>
        schema_yml == BuildSchemaYml(table_name, ts.columns, notes)
    IN [model_sql |-> model_sql, schema_yml |-> schema_yml,
        warnings |-> all_warnings]

\* a variant of compile_table_dbt that compiles its columns for Snowflake
\* whatever the dialect
CompileTableDbtSnowflake(ts, dia, cfg) ==
    CompileTableDbtFrom(ts, dia, cfg,
                        ColResults(ts.columns, "sql", "snowflake_sql"))

\* compile_table_dbt(table_spec, dialect, project_config)
CompileTableDbtResult(ts, dia, cfg) ==
    CompileTableDbtFrom(ts, dia, cfg, ColResults(ts.columns, "sql", dia))

----------------------------------------------------------------------------
\* Inputs of compile_column

RegexValues ==
    {[enabled |-> FALSE, pattern |-> "", replacement |-> ""],
     [enabled |-> TRUE, pattern |-> "\\d+", replacement |-> "X"],
     [enabled |-> TRUE, pattern |-> "", replacement |-> ""]}

CaseValues == {"none", "upper", "title"}

CastValues == {"", "integer", "uuid"}

NullValues ==
    {[strategy |-> "none", replacement |-> ""],
     [strategy |-> "replace", replacement |-> "N/A"],
     [strategy |-> "drop", replacement |-> ""]}

WhereValues ==
    {[enabled |-> FALSE, condition |-> ""],
     [enabled |-> TRUE, condition |-> "amount > 0"],
     [enabled |-> TRUE, condition |-> ""]}

CaseList(n) == [i \in 1..n |-> [when |-> "x = 1", then |-> "one"]]

ConditionalValues ==
    {[enabled |-> FALSE, cases |-> <<>>, else_value |-> ""]}
    \cup {[enabled |-> TRUE, cases |-> CaseList(n), else_value |-> "other"] :
            n \in 0..MaxCases}

SplitValues ==
    {[enabled |-> FALSE, delimiter |-> "", index |-> "0"],
     [enabled |-> TRUE, delimiter |-> ";", index |-> "1"],
     [enabled |-> TRUE, delimiter |-> "", index |-> "0"]}

CustomValues == {"", "MY_CUSTOM_FUNC(col)"}

TransformationValues ==
    {[trim |-> tr, strip_special_chars |-> ss, regex |-> rx,
      case_normalization |-> cn, type_cast |-> tc,
      null_strategy |-> nu.strategy, null_replacement |-> nu.replacement,
      where_filter |-> wf, conditional |-> cd, delimiter_split |-> ds,
      custom_expression |-> cx] :
        tr \in BOOLEAN, ss \in BOOLEAN, rx \in RegexValues, cn \in CaseValues,
        tc \in CastValues, nu \in NullValues, wf \in WhereValues,
        cd \in ConditionalValues, ds \in SplitValues, cx \in CustomValues}

ColumnValues ==
    {[name |-> "col_a", nullable |-> TRUE, transformations |-> t] :
        t \in TransformationValues}

Targets == {"sql", "pyspark"}

\* "oracle" has no entry in the registry
Dialects == {"snowflake_sql", "tsql", "pyspark", "oracle"}

\* the (target, dialect) pairs of the calls
Calls ==
    ({"sql"} \X {"snowflake_sql", "tsql", "oracle"})
    \cup ({"pyspark"} \X {"pyspark", "tsql", "oracle"})

NoResult == [column_name |-> "", expression |-> <<>>, alias |-> "",
             warnings |-> <<>>, target |-> "", dialect |-> ""]

----------------------------------------------------------------------------
\* Inputs of the table assemblers

DefaultTransformations ==
    [trim |-> FALSE, strip_special_chars |-> FALSE,
     regex |-> [enabled |-> FALSE, pattern |-> "", replacement |-> ""],
     case_normalization |-> "none", type_cast |-> "",
     null_strategy |-> "none", null_replacement |-> "",
     where_filter |-> [enabled |-> FALSE, condition |-> ""],
     conditional |-> [enabled |-> FALSE, cases |-> <<>>, else_value |-> ""],
     delimiter_split |-> [enabled |-> FALSE, delimiter |-> "", index |-> "0"],
     custom_expression |-> ""]

\* a stored column dict
ColumnDict(name, data_type, nullable, t) ==
    [name |-> name, data_type |-> data_type, nullable |-> nullable,
     transformations |-> t, notes |-> ""]

\* the column dicts the tables are made of
TableColumnValues ==
    {ColumnDict("id", "integer", FALSE, DefaultTransformations),
     ColumnDict("name", "string", TRUE,
        [DefaultTransformations EXCEPT !.trim = TRUE,
                                       !.case_normalization = "upper"]),
     ColumnDict("phone", "string", FALSE,
        [DefaultTransformations EXCEPT
            !.strip_special_chars = TRUE,
            !.regex = [enabled |-> TRUE, pattern |-> "\\d+", replacement |-> "X"],
            !.null_strategy = "drop",
            !.delimiter_split = [enabled |-> TRUE, delimiter |-> ";", index |-> "1"]]),
     ColumnDict("email", "string", TRUE,
        [DefaultTransformations EXCEPT !.trim = TRUE,
                                       !.custom_expression = "MY_CUSTOM_FUNC(col)"])}

RECURSIVE SeqsUpTo(_, _)
\* the sequences over S of length at most n
SeqsUpTo(S, n) ==
    IF n = 0 THEN {<<>>}
    ELSE LET shorter == SeqsUpTo(S, n - 1)
         IN shorter \cup {Append(q, x) : q \in shorter, x \in S}

NotesValues ==
    {[n \in {"id", "name", "phone", "email"} |-> ""],
     [n \in {"id", "name", "phone", "email"} |->
        IF n = "id" THEN "Primary key" ELSE ""],
     [n \in {"name"} |-> "Full name"]}

TableSpecValues ==
    {[project |-> [name |-> "proj"],
      table |-> [name |-> "customers", layer |-> "bronze"],
      columns |-> cols, notes |-> nt] :
        cols \in SeqsUpTo(TableColumnValues, MaxCols), nt \in NotesValues}

\* project configs: catalog set, empty, missing
ProjectConfigValues ==
    {[name |-> "proj", catalog |-> "main"],
     [name |-> "proj", catalog |-> ""],
     [name |-> "proj"]}

TableDialects == {"snowflake_sql", "tsql"}

NoArtifact == [kind |-> "none"]

\* no compile_column call in progress
ColumnIdle ==
    /\ column = [name |-> "", nullable |-> TRUE,
                 transformations |-> DefaultTransformations]
    /\ target = ""
    /\ dialect = ""
    /\ pc = "idle"
    /\ step_i = 1
    /\ expr = <<>>
    /\ warnings = <<>>
    /\ pyspark_applied = FALSE
    /\ result = NoResult

\* no table assembler call made
TableIdle ==
    /\ table_spec = [project |-> [name |-> ""],
                     table |-> [name |-> "", layer |-> ""],
                     columns |-> <<>>, notes |-> <<>>]
    /\ project_config = <<>>
    /\ table_dialect = ""
    /\ artifact = NoArtifact

\* no assembler loop in progress
AssemblerIdle ==
    /\ assembler = "none"
    /\ col_i = 1
    /\ loop_results = <<>>

\* the callers of execute_sql
Procs == {"a", "b"}

NoExecArgs == [query |-> [kind |-> "", from |-> ""], data |-> <<>>,
               table_name |-> ""]

NoExecResult == [success |-> FALSE, rows |-> <<>>, columns |-> <<>>,
                 row_count |-> 0, error |-> <<"(no result)">>]

\* no execute_sql call made, no engine instance created
ExecIdle ==
    /\ eargs = [p \in Procs |-> NoExecArgs]
    /\ epc = [p \in Procs |-> "idle"]
    /\ econn = [p \in Procs |-> 0]
    /\ eresult = [p \in Procs |-> NoExecResult]
    /\ conns = <<>>

\* no call of another executor method made
MethodIdle ==
    /\ vcall = [op |-> "none"]
    /\ vout = [op |-> "none"]

\* ProjectManager.__init__: the projects directory exists and is empty
\* (paths are relative to it)
EmptyDisk == [dirs |-> {}, files |-> <<>>]

NoReply == [op |-> "none"]

\* no operation on the project store made
StoreIdle ==
    /\ disk = EmptyDisk
    /\ reply = NoReply

----------------------------------------------------------------------------
\* compile_column as a state machine: one action per step of the loop

Init ==
    /\ column \in ColumnValues
    /\ \E c \in Calls : target = c[1] /\ dialect = c[2]
    /\ pc = "call"
    /\ step_i = 1
    /\ expr = <<>>
    /\ warnings = <<>>
    /\ pyspark_applied = FALSE
    /\ result = NoResult
    /\ TableIdle
    /\ AssemblerIdle
    /\ ExecIdle
    /\ MethodIdle
    /\ StoreIdle

\* a custom expression that replaces the expression only after the steps
\* have run, so that their warnings are returned with it
ReturnCustomAfterSteps ==
    /\ pc = "call"
    /\ column.transformations.custom_expression # ""
    /\ result' = ColumnResult(column,
                    Str(column.transformations.custom_expression),
                    RunSteps(1, Locals(InitialExpr(column.name, target), <<>>, FALSE),
                             column, target, TgtDialect(target, dialect)).warnings,
                    target, dialect)
    /\ pc' = "done"
    /\ UNCHANGED <<column, target, dialect, step_i, expr, warnings,
                   pyspark_applied>>
    /\ UNCHANGED NotColumnVars

\* custom expression short-circuits all template logic
ReturnCustom ==
    /\ pc = "call"
    /\ column.transformations.custom_expression # ""
    /\ result' = ColumnResult(column,
                    Str(column.transformations.custom_expression), <<>>,
                    target, dialect)
    /\ pc' = "done"
    /\ UNCHANGED <<column, target, dialect, step_i, expr, warnings,
                   pyspark_applied>>
    /\ UNCHANGED NotColumnVars

\* a variant in which pyspark_applied is kept between calls, as an attribute
\* of the compiler would be
EnterLoopKeepsFlag ==
    /\ pc = "call"
    /\ column.transformations.custom_expression = ""
    /\ expr' = InitialExpr(column.name, target)
    /\ warnings' = <<>>
    /\ pyspark_applied' = pyspark_applied
    /\ step_i' = 1
    /\ pc' = "loop"
    /\ UNCHANGED <<column, target, dialect, result>>
    /\ UNCHANGED NotColumnVars

\* the locals are initialised and the loop is entered
EnterLoop ==
    /\ pc = "call"
    /\ column.transformations.custom_expression = ""
    /\ expr' = InitialExpr(column.name, target)
    /\ warnings' = <<>>
    /\ pyspark_applied' = FALSE
    /\ step_i' = 1
    /\ pc' = "loop"
    /\ UNCHANGED <<column, target, dialect, result>>
    /\ UNCHANGED NotColumnVars

\* one iteration of the loop, for the step named step
Step(step) ==
    /\ pc = "loop"
    /\ step_i <= Len(TRANSFORM_ORDER)
    /\ TRANSFORM_ORDER[step_i] = step
    /\ LET st == StepBody(step, Locals(expr, warnings, pyspark_applied),
                          column, target, TgtDialect(target, dialect))
       IN /\ expr' = st.expr
          /\ warnings' = st.warnings
          /\ pyspark_applied' = st.pyspark_applied
    /\ step_i' = step_i + 1
    /\ UNCHANGED <<column, target, dialect, pc, result>>
    /\ UNCHANGED NotColumnVars

StepTrim == Step("trim")
StepStripSpecial == Step("strip_special")
StepRegex == Step("regex")
StepCaseNormalization == Step("case_normalization")
StepTypeCast == Step("type_cast")
StepNullStrategy == Step("null_strategy")
StepWhereFilter == Step("where_filter")
StepConditional == Step("conditional")
StepDelimiterSplit == Step("delimiter_split")

\* the loop is over: the result dict is returned
Return ==
    /\ pc = "loop"
    /\ step_i > Len(TRANSFORM_ORDER)
    /\ result' = ColumnResult(column, expr, warnings, target, dialect)
    /\ pc' = "done"
    /\ UNCHANGED <<column, target, dialect, step_i, expr, warnings,
                   pyspark_applied>>
    /\ UNCHANGED NotColumnVars

Next ==
    \/ ReturnCustom
    \/ EnterLoop
    \/ StepTrim
    \/ StepStripSpecial
    \/ StepRegex
    \/ StepCaseNormalization
    \/ StepTypeCast
    \/ StepNullStrategy
    \/ StepWhereFilter
    \/ StepConditional
    \/ StepDelimiterSplit
    \/ Return

Spec == Init /\ [][Next]_vars

----------------------------------------------------------------------------
\* The table assemblers as a state machine: one action per assembler

TableInit ==
    /\ table_spec \in TableSpecValues
    /\ project_config \in ProjectConfigValues
    /\ table_dialect \in TableDialects
    /\ artifact = NoArtifact
    /\ ColumnIdle
    /\ AssemblerIdle
    /\ ExecIdle
    /\ MethodIdle
    /\ StoreIdle

CompileTableSql ==
    /\ artifact' = [kind |-> "sql",
                    out |-> CompileTableSqlResult(table_spec, table_dialect,
                                                  project_config)]
    /\ UNCHANGED <<table_spec, project_config, table_dialect>>
    /\ UNCHANGED NotTableVars

CompileTablePyspark ==
    /\ artifact' = [kind |-> "pyspark",
                    out |-> CompileTablePysparkResult(table_spec, project_config)]
    /\ UNCHANGED <<table_spec, project_config, table_dialect>>
    /\ UNCHANGED NotTableVars

CompileTableDbt ==
    /\ artifact' = [kind |-> "dbt",
                    out |-> CompileTableDbtResult(table_spec, table_dialect,
                                                  project_config)]
    /\ UNCHANGED <<table_spec, project_config, table_dialect>>
    /\ UNCHANGED NotTableVars

TableNext ==
    \/ CompileTableSql
    \/ CompileTablePyspark
    \/ CompileTableDbt

SpecTable == TableInit /\ [][TableNext]_vars

----------------------------------------------------------------------------
\* The assemblers as loops of compile_column calls on one TransformCompiler:
\* any sequence of assembler calls, each compiling its columns one after
\* the other with the steps of compile_column

\* the tables and configurations of the calls
CallsTableSpecValues ==
    {ts \in TableSpecValues : ts.notes = [n \in {"name"} |-> "Full name"]}

CallsProjectConfigValues ==
    {cfg \in ProjectConfigValues : "catalog" \in DOMAIN cfg}

\* target and dialect that an assembler passes to compile_column
AssemblerTarget(kind) == IF kind = "pyspark" THEN "pyspark" ELSE "sql"

AssemblerDialect(kind) == IF kind = "pyspark" THEN "pyspark" ELSE table_dialect

CallsInit ==
    /\ table_spec \in CallsTableSpecValues
    /\ project_config \in CallsProjectConfigValues
    /\ table_dialect \in TableDialects
    /\ artifact = NoArtifact
    /\ ColumnIdle
    /\ AssemblerIdle
    /\ ExecIdle
    /\ MethodIdle
    /\ StoreIdle

\* an assembler is called: its list of column results is empty
AssemblerCall(kind) ==
    /\ assembler = "none"
    /\ pc = "idle"
    /\ assembler' = kind
    /\ col_i' = 1
    /\ loop_results' = <<>>
    /\ UNCHANGED <<cvars, tvars, evars, xvars, svars>>

CallSql == AssemblerCall("sql")

CallPyspark == AssemblerCall("pyspark")

CallDbt == AssemblerCall("dbt")

\* the loop validates the next column and calls compile_column on it
BeginColumn ==
    /\ assembler # "none"
    /\ pc = "idle"
    /\ col_i <= Len(table_spec.columns)
    /\ column' = ModelValidate(table_spec.columns[col_i])
    /\ target' = AssemblerTarget(assembler)
    /\ dialect' = AssemblerDialect(assembler)
    /\ pc' = "call"
    /\ UNCHANGED <<step_i, expr, warnings, pyspark_applied, result>>
    /\ UNCHANGED <<tvars, avars, evars, xvars, svars>>

\* compile_column has returned: its result is added to the list
EndColumn ==
    /\ assembler # "none"
    /\ pc = "done"
    /\ loop_results' = Append(loop_results, result)
    /\ col_i' = col_i + 1
    /\ pc' = "idle"
    /\ UNCHANGED <<column, target, dialect, step_i, expr, warnings,
                   pyspark_applied, result, assembler>>
    /\ UNCHANGED <<tvars, evars, xvars, svars>>

\* the assembler builds its artifact from the list and returns
AssemblerReturn ==
    /\ assembler # "none"
    /\ pc = "idle"
    /\ col_i > Len(table_spec.columns)
    /\ artifact' =
          [kind |-> assembler,
           out |-> CASE assembler = "sql" ->
                          CompileTableSqlFrom(table_spec, table_dialect,
                                              project_config, loop_results)
                     [] assembler = "pyspark" ->
                          CompileTablePysparkFrom(table_spec, project_config,
                                                  loop_results)
                     [] OTHER ->
                          CompileTableDbtFrom(table_spec, table_dialect,
                                              project_config, loop_results)]
    /\ assembler' = "none"
    /\ UNCHANGED <<table_spec, project_config, table_dialect, col_i,
                   loop_results>>
    /\ UNCHANGED <<cvars, evars, xvars, svars>>

CallsNext ==
    \/ CallSql
    \/ CallPyspark
    \/ CallDbt
    \/ BeginColumn
    \/ ReturnCustom
    \/ EnterLoop
    \/ StepTrim
    \/ StepStripSpecial
    \/ StepRegex
    \/ StepCaseNormalization
    \/ StepTypeCast
    \/ StepNullStrategy
    \/ StepWhereFilter
    \/ StepConditional
    \/ StepDelimiterSplit
    \/ Return
    \/ EndColumn
    \/ AssemblerReturn

SpecCalls == CallsInit /\ [][CallsNext]_vars

----------------------------------------------------------------------------
\* The in-memory engine, as far as execute_sql uses it.  A query is known by
\* the relation it reads and by what becomes of it: "select_all" returns the
\* rows of the relation, "select_none" none of them, "type_error" fails
\* while evaluating and "syntax_error" does not parse.

\* Python None, SQL NULL
None == "<None>"

\* the keys of the rows of synthetic data, in the order of the dicts
DataColumns == <<"id", "name">>

\* the relations that queries read and calls register
TableNames == {"customers", "orders"}

\* pd.DataFrame(data): the columns are the keys of the rows, a key missing
\* from a row gives a null
DataFrame(data) ==
    LET keys == UNION {DOMAIN data[i] : i \in 1..Len(data)}
        IsKey(c) == c \in keys
        columns == SelectSeq(DataColumns, IsKey)
    IN [columns |-> columns,
        rows |-> [i \in 1..Len(data) |->
                    [k \in 1..Len(columns) |->
                        IF columns[k] \in DOMAIN data[i]
                        THEN data[i][columns[k]] ELSE None]]]

\* no statement executed yet on an instance
NoCursor == [columns |-> <<>>, rows |-> <<>>]

\* duckdb.connect(":memory:"): a new instance without relations
NewInstance == [open |-> TRUE, relations |-> <<>>, queries |-> 0,
                cursor |-> NoCursor]

\* conn.register(name, df)
RegisterRelation(conn, name, df) ==
    [conn EXCEPT !.relations =
        [n \in DOMAIN conn.relations \cup {name} |->
            IF n = name THEN df ELSE conn.relations[n]]]

\* the exception raised by conn.execute(query), <<>> when there is none
ExecuteError(conn, query) ==
    CASE ~conn.open ->
           <<"Connection Error: Connection has already been closed">>
      [] query.kind = "syntax_error" ->
           <<"Parser Error: syntax error at or near \"", query.from, "\"">>
      [] query.from \notin DOMAIN conn.relations ->
           <<"Catalog Error: Table with name ", query.from,
             " does not exist!">>
      [] query.kind = "type_error" ->
           <<"Conversion Error: Could not convert string to INT32">>
      [] OTHER -> <<>>

\* conn.execute(query) when it raises nothing: the result is held by conn
ExecuteQuery(conn, query) ==
    LET rel == conn.relations[query.from] IN
    [conn EXCEPT !.queries = @ + 1,
                 !.cursor = [columns |-> rel.columns,
                             rows |-> IF query.kind = "select_none"
                                      THEN <<>> ELSE rel.rows]]

\* conn.close(): the instance and its relations are gone
CloseInstance(conn) ==
    [conn EXCEPT !.open = FALSE, !.relations = <<>>, !.cursor = NoCursor]

\* dict(zip(columns, row))
Zip(columns, row) ==
    [c \in {columns[k] : k \in 1..Len(columns)} |->
        row[CHOOSE k \in 1..Len(columns) : columns[k] = c]]

----------------------------------------------------------------------------
\* execute_sql, step by step, for concurrent callers

\* a variant of the failure dict whose error text is lost
FailureResultNoMessage(exc) ==
    [success |-> FALSE, rows |-> <<>>, columns |-> <<>>, row_count |-> 0,
     error |-> <<>>]

\* the dict returned by the except branch
FailureResult(exc) ==
    [success |-> FALSE, rows |-> <<>>, columns |-> <<>>, row_count |-> 0,
     error |-> exc]

\* the dict returned after fetchall
SuccessResult(columns, rows_raw) ==
    LET rows == [i \in 1..Len(rows_raw) |-> Zip(columns, rows_raw[i])] IN
    [success |-> TRUE, rows |-> rows, columns |-> columns,
     row_count |-> Len(rows), error |-> <<>>]

ExecQueryValues ==
    {[kind |-> k, from |-> f] :
        k \in {"select_all", "select_none", "type_error"}, f \in TableNames}
    \cup {[kind |-> "syntax_error", from |-> "SELEC"]}

ExecDataValues == {<<>>, << [id |-> "1", name |-> "a"] >>}

ExecArgValues ==
    [query : ExecQueryValues, data : ExecDataValues, table_name : TableNames]

ExecInit ==
    /\ ExecIdle
    /\ ColumnIdle
    /\ TableIdle
    /\ AssemblerIdle
    /\ MethodIdle
    /\ StoreIdle

\* the calls started so far
Started == Len(conns) + Cardinality({p \in Procs : epc[p] = "connect"})

\* caller p calls execute_sql(query, data, table_name)
ExecuteSqlCall(p) ==
    /\ epc[p] \in {"idle", "done"}
    /\ Started < MaxConns
    /\ \E a \in ExecArgValues : eargs' = [eargs EXCEPT ![p] = a]
    /\ epc' = [epc EXCEPT ![p] = "connect"]
    /\ UNCHANGED <<econn, eresult, conns>>
    /\ UNCHANGED NotExecVars

\* a variant in which every call uses the first instance ever created
ConnectShared(p) ==
    /\ epc[p] = "connect"
    /\ conns' = IF conns = <<>> THEN <<NewInstance>>
                ELSE Append([conns EXCEPT ![1].open = TRUE],
                            CloseInstance(NewInstance))
    /\ econn' = [econn EXCEPT ![p] = 1]
    /\ epc' = [epc EXCEPT ![p] = "register"]
    /\ UNCHANGED <<eargs, eresult>>
    /\ UNCHANGED NotExecVars

\* conn = duckdb.connect(":memory:")
Connect(p) ==
    /\ epc[p] = "connect"
    /\ conns' = Append(conns, NewInstance)
    /\ econn' = [econn EXCEPT ![p] = Len(conns) + 1]
    /\ epc' = [epc EXCEPT ![p] = "register"]
    /\ UNCHANGED <<eargs, eresult>>
    /\ UNCHANGED NotExecVars

\* a variant that registers the data whether or not it has rows
RegisterAlways(p) ==
    /\ epc[p] = "register"
    /\ conns' = [conns EXCEPT ![econn[p]] =
                    RegisterRelation(@, eargs[p].table_name,
                                     DataFrame(eargs[p].data))]
    /\ epc' = [epc EXCEPT ![p] = "execute"]
    /\ UNCHANGED <<eargs, econn, eresult>>
    /\ UNCHANGED NotExecVars

\* if data: df = pd.DataFrame(data); conn.register(table_name, df)
Register(p) ==
    /\ epc[p] = "register"
    /\ conns' = IF eargs[p].data # <<>>
                THEN [conns EXCEPT ![econn[p]] =
                        RegisterRelation(@, eargs[p].table_name,
                                         DataFrame(eargs[p].data))]
                ELSE conns
    /\ epc' = [epc EXCEPT ![p] = "execute"]
    /\ UNCHANGED <<eargs, econn, eresult>>
    /\ UNCHANGED NotExecVars

\* conn.execute(query) raises nothing
Execute(p) ==
    /\ epc[p] = "execute"
    /\ ExecuteError(conns[econn[p]], eargs[p].query) = <<>>
    /\ conns' = [conns EXCEPT ![econn[p]] = ExecuteQuery(@, eargs[p].query)]
    /\ epc' = [epc EXCEPT ![p] = "fetch"]
    /\ UNCHANGED <<eargs, econn, eresult>>
    /\ UNCHANGED NotExecVars

\* conn.execute(query) raises: the except branch returns the failure dict.
\* conn.close() is not reached; the instance is closed only when the
\* interpreter finalises the unreferenced conn, which it may do at the
\* return or later
ExecuteRaises(p) ==
    /\ epc[p] = "execute"
    /\ ExecuteError(conns[econn[p]], eargs[p].query) # <<>>
    /\ eresult' = [eresult EXCEPT ![p] =
                      FailureResult(ExecuteError(conns[econn[p]],
                                                 eargs[p].query))]
    /\ \E finalised \in BOOLEAN :
          conns' = IF finalised
                   THEN [conns EXCEPT ![econn[p]] = CloseInstance(@)]
                   ELSE conns
    /\ epc' = [epc EXCEPT ![p] = "done"]
    /\ UNCHANGED <<eargs, econn>>
    /\ UNCHANGED NotExecVars

\* columns, rows_raw, rows are read, conn.close() is called and the success
\* dict is returned
FetchAndClose(p) ==
    /\ epc[p] = "fetch"
    /\ LET cursor == conns[econn[p]].cursor IN
       eresult' = [eresult EXCEPT ![p] =
                      SuccessResult(cursor.columns, cursor.rows)]
    /\ conns' = [conns EXCEPT ![econn[p]] = CloseInstance(@)]
    /\ epc' = [epc EXCEPT ![p] = "done"]
    /\ UNCHANGED <<eargs, econn>>
    /\ UNCHANGED NotExecVars

ExecNext ==
    \E p \in Procs :
        \/ ExecuteSqlCall(p)
        \/ Connect(p)
        \/ Register(p)
        \/ Execute(p)
        \/ ExecuteRaises(p)
        \/ FetchAndClose(p)

SpecExec == ExecInit /\ [][ExecNext]_vars

----------------------------------------------------------------------------
\* generate_assertions, run_assertion and validate_table

Digits == <<"0", "1", "2", "3", "4", "5", "6", "7", "8", "9">>

RECURSIVE NumStr(_)
\* an int in an f-string: its decimal digits
NumStr(k) ==
    IF k < Len(Digits) THEN <<Digits[k + 1]>>
    ELSE NumStr(k \div Len(Digits)) \o <<Digits[(k % Len(Digits)) + 1]>>

\* r.get(col)
Get(r, col) == IF col \in DOMAIN r THEN r[col] ELSE None

\* a variant without the row-count assertion
GenerateAssertionsNoRowCount(col) ==
    (IF ~col.nullable
     THEN << [type |-> "not_null", column |-> col.name,
              description |-> Str(col.name) \o <<" has no nulls">>] >>
     ELSE <<>>)
    \o (IF col.transformations.type_cast # ""
        THEN << [type |-> "type_check", column |-> col.name,
                 expected_type |-> col.transformations.type_cast,
                 description |-> Str(col.name) \o <<" cast to ">>
                                 \o Str(col.transformations.type_cast)] >>
        ELSE <<>>)
    \o (IF col.transformations.regex.enabled
        THEN << [type |-> "no_error", column |-> col.name,
                 description |-> <<"regex applied without errors">>] >>
        ELSE <<>>)

\* a variant that asks for not_null on every column
GenerateAssertionsNotNullAlways(col) ==
    << [type |-> "row_count_gte", min |-> 1,
        description |-> <<"output has at least 1 row">>],
       [type |-> "not_null", column |-> col.name,
        description |-> Str(col.name) \o <<" has no nulls">>] >>
    \o (IF col.transformations.type_cast # ""
        THEN << [type |-> "type_check", column |-> col.name,
                 expected_type |-> col.transformations.type_cast,
                 description |-> Str(col.name) \o <<" cast to ">>
                                 \o Str(col.transformations.type_cast)] >>
        ELSE <<>>)
    \o (IF col.transformations.regex.enabled
        THEN << [type |-> "no_error", column |-> col.name,
                 description |-> <<"regex applied without errors">>] >>
        ELSE <<>>)

\* generate_assertions(column)
GenerateAssertions(col) ==
    << [type |-> "row_count_gte", min |-> 1,
        description |-> <<"output has at least 1 row">>] >>
    \o (IF ~col.nullable
        THEN << [type |-> "not_null", column |-> col.name,
                 description |-> Str(col.name) \o <<" has no nulls">>] >>
        ELSE <<>>)
    \o (IF col.transformations.type_cast # ""
        THEN << [type |-> "type_check", column |-> col.name,
                 expected_type |-> col.transformations.type_cast,
                 description |-> Str(col.name) \o <<" cast to ">>
                                 \o Str(col.transformations.type_cast)] >>
        ELSE <<>>)
    \o (IF col.transformations.regex.enabled
        THEN << [type |-> "no_error", column |-> col.name,
                 description |-> <<"regex applied without errors">>] >>
        ELSE <<>>)

\* the dict returned by run_assertion
AssertionResult(assertion, passed, detail) ==
    [type |-> assertion.type, description |-> assertion.description,
     passed |-> passed, detail |-> detail]

\* a variant of run_assertion that counts only the nulls of the rows that
\* have the column
RunAssertionPresentOnly(assertion, rows) ==
    IF assertion.type = "not_null"
    THEN LET col == assertion.column
             null_count == Cardinality({i \in 1..Len(rows) :
                              col \in DOMAIN rows[i] /\ rows[i][col] = None})
             passed == null_count = 0
         IN AssertionResult(assertion, passed,
                IF passed THEN <<>>
                ELSE NumStr(null_count) \o <<" null(s) found in '">>
                     \o Str(col) \o <<"'">>)
    ELSE AssertionResult(assertion, TRUE, <<>>)

\* a variant of run_assertion that lets an assertion of unknown type pass
RunAssertionUnknownPasses(assertion, rows) ==
    IF assertion.type \in {"row_count_gte", "not_null", "type_check", "no_error"}
    THEN RunAssertionPresentOnly(assertion, rows)
    ELSE AssertionResult(assertion, TRUE, <<>>)

\* a variant of run_assertion whose row-count assertion always passes
RunAssertionRowCountAlways(assertion, rows) ==
    IF assertion.type = "not_null"
    THEN LET col == assertion.column
             null_count == Cardinality({i \in 1..Len(rows) :
                                           Get(rows[i], col) = None})
         IN AssertionResult(assertion, null_count = 0,
                IF null_count = 0 THEN <<>>
                ELSE NumStr(null_count) \o <<" null(s) found in '">>
                     \o Str(col) \o <<"'">>)
    ELSE AssertionResult(assertion, TRUE, <<>>)

\* run_assertion(assertion, rows)
RunAssertion(assertion, rows) ==
    LET atype == assertion.type IN
    CASE atype = "row_count_gte" ->
           LET passed == Len(rows) >= assertion.min IN
           AssertionResult(assertion, passed,
               IF passed THEN <<>>
               ELSE <<"Expected >= ">> \o NumStr(assertion.min)
                    \o <<" rows, got ">> \o NumStr(Len(rows)))
      [] atype = "not_null" ->
           LET col == assertion.column
               null_count == Cardinality({i \in 1..Len(rows) :
                                             Get(rows[i], col) = None})
               passed == null_count = 0
           IN AssertionResult(assertion, passed,
                  IF passed THEN <<>>
                  ELSE NumStr(null_count) \o <<" null(s) found in '">>
                       \o Str(col) \o <<"'">>)
      [] atype = "type_check" -> AssertionResult(assertion, TRUE, <<>>)
      [] atype = "no_error" -> AssertionResult(assertion, TRUE, <<>>)
      [] OTHER ->
           AssertionResult(assertion, FALSE,
               <<"Unknown assertion type: ">> \o Str(atype))

\* execute_sql(query, data, table_name) as one call
ExecuteSql(query, data, table_name) ==
    LET created == NewInstance
        conn == IF data # <<>>
                THEN RegisterRelation(created, table_name, DataFrame(data))
                ELSE created
        exc == ExecuteError(conn, query)
    IN IF exc # <<>> THEN FailureResult(exc)
       ELSE LET cursor == ExecuteQuery(conn, query).cursor
            IN SuccessResult(cursor.columns, cursor.rows)

\* all(r["passed"] for r in results)
AllPassed(results) == \A i \in 1..Len(results) : results[i].passed

\* a variant of the report that passes when there is no assertion at all
ReportVacuousPass(exec_result, all_results, columns_report) ==
    LET total == Len(all_results)
        passed_count ==
            Cardinality({i \in 1..total : all_results[i].passed})
    IN [passed |-> passed_count = total,
        total_assertions |-> total,
        passed_count |-> passed_count,
        failed_count |-> total - passed_count,
        execution |-> [success |-> exec_result.success,
                       row_count |-> exec_result.row_count,
                       error |-> exec_result.error],
        columns |-> columns_report]

\* a variant of the report whose execution block is derived from the
\* assertion results
ReportExecutionFromAssertions(exec_result, all_results, columns_report) ==
    LET total == Len(all_results)
        passed_count ==
            Cardinality({i \in 1..total : all_results[i].passed})
    IN [passed |-> passed_count = total /\ total > 0,
        total_assertions |-> total,
        passed_count |-> passed_count,
        failed_count |-> total - passed_count,
        execution |-> [success |-> passed_count = total,
                       row_count |-> exec_result.row_count,
                       error |-> <<>>],
        columns |-> columns_report]

\* the dict returned by validate_table
Report(exec_result, all_results, columns_report) ==
    LET total == Len(all_results)
        passed_count ==
            Cardinality({i \in 1..total : all_results[i].passed})
    IN [passed |-> passed_count = total /\ total > 0,
        total_assertions |-> total,
        passed_count |-> passed_count,
        failed_count |-> total - passed_count,
        execution |-> [success |-> exec_result.success,
                       row_count |-> exec_result.row_count,
                       error |-> exec_result.error],
        columns |-> columns_report]

\* validate_table(table_spec, compiled_sql, synthetic_data)
ValidateTable(ts, compiled_sql, synthetic_data) ==
    LET table_name == ts.table.name
        exec_result == ExecuteSql(compiled_sql, synthetic_data, table_name)
        rows == exec_result.rows
        n == Len(ts.columns)
        col(i) == ModelValidate(ts.columns[i])
        per_column ==
            [i \in 1..n |->
                LET assertions == GenerateAssertions(col(i)) IN
                [k \in 1..Len(assertions) |-> RunAssertion(assertions[k], rows)]]
        all_results == Flatten(per_column)
        Last(name) == CHOOSE i \in 1..n :
                         /\ col(i).name = name
                         /\ \A j \in 1..n : col(j).name = name => j <= i
        columns_report ==
            [name \in {col(i).name : i \in 1..n} |->
                [passed |-> AllPassed(per_column[Last(name)]),
                 assertions |-> per_column[Last(name)]]]
    IN Report(exec_result, all_results, columns_report)

\* the columns given to generate_assertions
GenColumnValues ==
    {[name |-> "col_a", nullable |-> n,
      transformations |-> [DefaultTransformations EXCEPT !.type_cast = c,
                                                         !.regex = r]] :
        n \in BOOLEAN, c \in CastValues, r \in RegexValues}

\* rows of synthetic data: complete, with a null id, without the key id
RowValues ==
    {[id |-> "1", name |-> "a"], [id |-> None, name |-> "b"],
     [name |-> "c"]}

DataValues == SeqsUpTo(RowValues, MaxRows)

\* the assertions given to run_assertion: the generated ones and one of a
\* type that run_assertion does not know
AssertionValues ==
    UNION {{GenerateAssertions(c)[k] : k \in 1..Len(GenerateAssertions(c))} :
              c \in {[g EXCEPT !.name = "id"] : g \in GenColumnValues}}
    \cup {[type |-> "unique", column |-> "id",
           description |-> <<"id is unique">>]}

\* the columns of the validated tables
ValidateColumnValues ==
    TableColumnValues
    \cup {ColumnDict("amount", "string", TRUE,
            [DefaultTransformations EXCEPT !.type_cast = "integer"])}

\* the validated tables: column names are unique within a table
ValidateTableValues ==
    {[project |-> [name |-> "proj"],
      table |-> [name |-> "customers", layer |-> "bronze"],
      columns |-> cols,
      notes |-> [n \in {cols[i].name : i \in 1..Len(cols)} |-> ""]] :
        cols \in {cs \in SeqsUpTo(ValidateColumnValues, MaxCols) :
                    \A i, j \in 1..Len(cs) : cs[i].name = cs[j].name => i = j}}

\* the compiled SQL given to validate_table
ValidateQueryValues ==
    {[kind |-> k, from |-> "customers"] :
        k \in {"select_all", "select_none", "type_error"}}
    \cup {[kind |-> "select_all", from |-> "orders"],
          [kind |-> "syntax_error", from |-> "SELEC"]}

\* the calls of the three methods
MethodCallValues ==
    {[op |-> "generate_assertions", column |-> c] : c \in GenColumnValues}
    \cup {[op |-> "run_assertion", assertion |-> a, rows |-> rows] :
            a \in AssertionValues, rows \in DataValues}
    \cup {[op |-> "validate_table", table_spec |-> ts, compiled_sql |-> q,
           synthetic_data |-> data] :
            ts \in ValidateTableValues, q \in ValidateQueryValues,
            data \in DataValues}

MethodInit ==
    /\ vcall \in MethodCallValues
    /\ vout = [op |-> "none"]
    /\ ColumnIdle
    /\ TableIdle
    /\ AssemblerIdle
    /\ ExecIdle
    /\ StoreIdle

GenerateAssertionsCall ==
    /\ vcall.op = "generate_assertions"
    /\ vout' = [op |-> "generate_assertions",
                value |-> GenerateAssertions(vcall.column)]
    /\ UNCHANGED vcall
    /\ UNCHANGED NotMethodVars

RunAssertionCall ==
    /\ vcall.op = "run_assertion"
    /\ vout' = [op |-> "run_assertion",
                value |-> RunAssertion(vcall.assertion, vcall.rows)]
    /\ UNCHANGED vcall
    /\ UNCHANGED NotMethodVars

ValidateTableCall ==
    /\ vcall.op = "validate_table"
    /\ vout' = [op |-> "validate_table",
                value |-> ValidateTable(vcall.table_spec, vcall.compiled_sql,
                                        vcall.synthetic_data)]
    /\ UNCHANGED vcall
    /\ UNCHANGED NotMethodVars

MethodNext ==
    \/ GenerateAssertionsCall
    \/ RunAssertionCall
    \/ ValidateTableCall

SpecMethods == MethodInit /\ [][MethodNext]_vars

----------------------------------------------------------------------------
\* Vocabulary of the properties

\* the fixed order of the steps, as documented
FixedOrder ==
    <<"trim", "strip_special", "regex", "case_normalization", "type_cast",
      "null_strategy", "where_filter", "conditional", "delimiter_split">>

\* the step named s is switched on in the transformations t
Enabled(s, t) ==
    CASE s = "trim" -> t.trim
      [] s = "strip_special" -> t.strip_special_chars
      [] s = "regex" -> t.regex.enabled
      [] s = "case_normalization" -> t.case_normalization # "none"
      [] s = "type_cast" -> t.type_cast # ""
      [] s = "null_strategy" -> t.null_strategy \in {"replace", "drop", "flag"}
      [] s = "where_filter" -> t.where_filter.enabled
      [] s = "conditional" -> t.conditional.enabled
      [] s = "delimiter_split" -> t.delimiter_split.enabled

\* the step named s is switched on but its required data is empty
EmptyData(s, t) ==
    CASE s = "regex" -> t.regex.enabled /\ t.regex.pattern = ""
      [] s = "where_filter" -> t.where_filter.enabled /\ t.where_filter.condition = ""
      [] s = "conditional" -> t.conditional.enabled /\ t.conditional.cases = <<>>
      [] s = "delimiter_split" ->
            t.delimiter_split.enabled /\ t.delimiter_split.delimiter = ""
      [] OTHER -> FALSE

\* the step named s is one the compiler looks a template up for
Active(s, t) ==
    Enabled(s, t) /\ (s = "conditional" => t.conditional.cases # <<>>)

\* the template key of the step named s
KeyOf(s, t) ==
    CASE s = "trim" -> "trim"
      [] s = "strip_special" -> "strip_special"
      [] s = "regex" -> "regex_replace"
      [] s = "case_normalization" ->
            (CASE t.case_normalization = "upper" -> "case_upper"
               [] t.case_normalization = "lower" -> "case_lower"
               [] OTHER -> "case_title")
      [] s = "type_cast" ->
            (CASE t.type_cast = "integer" -> "cast_integer"
               [] t.type_cast = "date" -> "cast_date"
               [] OTHER -> "cast_uuid")
      [] s = "null_strategy" ->
            (CASE t.null_strategy = "replace" -> "null_replace"
               [] t.null_strategy = "drop" -> "null_drop"
               [] OTHER -> "null_flag")
      [] s = "where_filter" -> "where_filter"
      [] s = "conditional" -> "conditional_case"
      [] s = "delimiter_split" -> "delimiter_split"

\* the parameters the step named s hands to its template
ParamsOf(s, t) ==
    CASE s = "regex" ->
            [pattern |-> Str(t.regex.pattern), repl |-> Str(t.regex.replacement)]
      [] s = "type_cast" ->
            [type |-> Str(t.type_cast), format |-> <<"YYYY-MM-DD">>]
      [] s = "null_strategy" /\ t.null_strategy = "replace" ->
            [replacement |-> Str(t.null_replacement)]
      [] s = "where_filter" -> [condition |-> Str(t.where_filter.condition)]
      [] s = "conditional" ->
            [cases |-> CasesStr(t.conditional.cases),
             else_value |-> Str(t.conditional.else_value)]
      [] s = "delimiter_split" ->
            [delimiter |-> Str(t.delimiter_split.delimiter),
             index |-> Str(t.delimiter_split.index)]
      [] OTHER -> <<>>

\* the template of the step named s in the dialect d (<<>>: none)
TemplateOf(s, t, d) ==
    LET k == KeyOf(s, t) IN
    IF k \in DOMAIN TEMPLATES /\ d \in DOMAIN TEMPLATES[k]
    THEN TEMPLATES[k][d] ELSE <<>>

IsAbsent(tmpl) == tmpl = <<>>
IsWarning(tmpl) == tmpl # <<>> /\ tmpl[1] = "__WARNING__:"
IsPattern(tmpl) == tmpl # <<>> /\ tmpl[1] # "__WARNING__:"

\* the effective dialect of the current call
EffDialect == IF target = "pyspark" THEN "pyspark" ELSE dialect

\* the step named s is applied in the current call: active, real pattern
Applied(s) ==
    /\ Active(s, column.transformations)
    /\ IsPattern(TemplateOf(s, column.transformations, EffDialect))

\* the step named s only warns in the current call
Warned(s) ==
    /\ Active(s, column.transformations)
    /\ IsWarning(TemplateOf(s, column.transformations, EffDialect))

\* the step named s has no template in the current call
Skipped(s) ==
    /\ Active(s, column.transformations)
    /\ IsAbsent(TemplateOf(s, column.transformations, EffDialect))

\* the template of s with its placeholders filled: col by the sequence c,
\* the others by the parameters of the step
Fill(tmpl, c, s) ==
    LET p == ParamsOf(s, column.transformations)
        val(tok) ==
            CASE tok = "{col}" -> c
              [] tok = "{pattern}" -> p.pattern
              [] tok = "{repl}" -> p.repl
              [] tok = "{type}" -> p.type
              [] tok = "{format}" -> p.format
              [] tok = "{replacement}" -> p.replacement
              [] tok = "{condition}" -> p.condition
              [] tok = "{cases}" -> p.cases
              [] tok = "{else_value}" -> p.else_value
              [] tok = "{delimiter}" -> p.delimiter
              [] tok = "{index}" -> p.index
              [] OTHER -> <<tok>>
    IN Flatten([i \in 1..Len(tmpl) |-> val(tmpl[i])])

\* the set of tokens of a string
Tokens(s) == {s[i] : i \in 1..Len(s)}

\* position of the first occurrence of a token in a string (0: none)
IndexOf(s, tok) ==
    IF tok \in Tokens(s)
    THEN CHOOSE i \in 1..Len(s) : s[i] = tok /\ \A j \in 1..(i - 1) : s[j] # tok
    ELSE 0

\* the call in progress has no custom expression
NoCustom == column.transformations.custom_expression = ""

\* the step the loop is about to run
AtStep(s) ==
    /\ pc = "loop"
    /\ step_i <= Len(TRANSFORM_ORDER)
    /\ TRANSFORM_ORDER[step_i] = s

StepNames == {FixedOrder[i] : i \in 1..Len(FixedOrder)}

----------------------------------------------------------------------------
\* C1: compile_column applies the steps in one fixed order

RECURSIVE Nest(_)
\* nesting of the templates of the applied steps among the first k steps of
\* the fixed order, earliest innermost around the bare column name
Nest(k) ==
    IF k = 0 THEN Str(column.name)
    ELSE LET s == FixedOrder[k]
             inner == Nest(k - 1)
         IN IF Applied(s)
            THEN Fill(TemplateOf(s, column.transformations, EffDialect), inner, s)
            ELSE inner

\* C1: for a non-dataframe target the expression is, after every iteration and
\* in the result, the nesting of the applied templates in the fixed order
\* trim, strip special, regex, case, cast, null, where, conditional, split,
\* whichever steps are active; with trim and upper both applied the upper-case
\* wrapper precedes (encloses) the trim wrapper.
ThmC1_FixedOrderNesting ==
    (target # "pyspark" /\ NoCustom) =>
        /\ pc = "loop" => expr = Nest(step_i - 1)
        /\ pc = "done" => result.expression = Nest(Len(FixedOrder))
        /\ ( /\ pc = "done"
             /\ Applied("trim")
             /\ Applied("case_normalization")
             /\ column.transformations.case_normalization = "upper" ) =>
                LET e == result.expression
                    up == IndexOf(e, TemplateOf("case_normalization",
                                column.transformations, EffDialect)[1])
                    tr == IndexOf(e,
                            TemplateOf("trim", column.transformations, EffDialect)[1])
                IN 0 < up /\ up < tr

\* a finished SQL compilation with trim, upper and where filter applied
WitC1_TrimUpperWhere ==
    /\ pc = "done"
    /\ target = "sql"
    /\ dialect = "snowflake_sql"
    /\ NoCustom
    /\ result.expression =
         <<"CASE WHEN ", "amount > 0", " THEN ", "UPPER(", "TRIM(", "col_a",
           ")", ")", " END">>

----------------------------------------------------------------------------
\* C2: a custom expression bypasses everything else

\* C2: when custom_expression is set the result is exactly that string as
\* expression, the column name as alias and no warnings, for every target,
\* dialect and combination of the other flags; no template is looked up.
ThmC2_CustomExpressionBypass ==
    (pc = "done" /\ ~NoCustom) =>
        /\ result.expression = <<column.transformations.custom_expression>>
        /\ result.alias = column.name
        /\ result.column_name = column.name
        /\ result.warnings = <<>>
        /\ expr = <<>> /\ warnings = <<>>

\* a finished call with a custom expression and a flag that would warn
WitC2_CustomWithWarningFlag ==
    /\ pc = "done"
    /\ ~NoCustom
    /\ dialect = "tsql" /\ target = "sql"
    /\ column.transformations.trim
    /\ Warned("regex")
    /\ result.expression = <<"MY_CUSTOM_FUNC(col)">>

----------------------------------------------------------------------------
\* C3: a warning marker adds its message and leaves the expression alone

\* the message of a warning marker: what follows the prefix, without the
\* leading white space
MessageOf(tmpl) == SelectSeq(Tail(tmpl), LAMBDA tok : tok # " ")

\* the tokens that only the step named s could bring into an expression
OwnTokens(s) ==
    LET t == column.transformations
        p == ParamsOf(s, t)
    IN (Tokens(TemplateOf(s, t, EffDialect)) \ {" "})
       \cup UNION {Tokens(p[k]) : k \in DOMAIN p}

\* the steps of the current call that only warn
WarnedSteps == {s \in StepNames : Warned(s)}

\* C3: a step whose template is a warning marker appends that marker's
\* message to the warnings and leaves the expression as it was; the result
\* carries one warning per such step and its expression holds nothing of the
\* step's template or parameters.
ThmC3_WarningLeavesExpression ==
    /\ [][\A s \in StepNames :
            (AtStep(s) /\ Warned(s)) =>
                /\ warnings' = Append(warnings,
                      MessageOf(TemplateOf(s, column.transformations, EffDialect)))
                /\ expr' = expr
                /\ pyspark_applied' = pyspark_applied]_vars
    /\ []((pc = "done" /\ NoCustom) =>
            /\ Len(result.warnings) = Cardinality(WarnedSteps)
            /\ \A s \in WarnedSteps :
                  /\ Tokens(result.expression) \cap OwnTokens(s) = {}
                  /\ \E i \in 1..Len(result.warnings) :
                        result.warnings[i] =
                          MessageOf(TemplateOf(s, column.transformations, EffDialect)))

\* T-SQL: regex only warns, trim before it and upper after it are applied
WitC3_TsqlRegexWarning ==
    /\ pc = "done"
    /\ target = "sql" /\ dialect = "tsql"
    /\ Warned("regex")
    /\ result.warnings = <<<<"REGEXP_REPLACE is not supported in T-SQL">>>>
    /\ result.expression = <<"UPPER(", "LTRIM(RTRIM(", "col_a", "))", ")">>

----------------------------------------------------------------------------
\* C4: a step without template is skipped silently

\* C4: a step whose template is absent (unknown key, dialect without entry,
\* empty template) changes neither the expression nor the warnings, the loop
\* goes on and the call returns a complete result.
ThmC4_MissingTemplateSkipped ==
    /\ [][\A s \in StepNames :
            (AtStep(s) /\ Skipped(s)) =>
                /\ expr' = expr
                /\ warnings' = warnings
                /\ pyspark_applied' = pyspark_applied
                /\ step_i' = step_i + 1
                /\ pc' = "loop"]_vars
    /\ [](pc = "done" =>
            /\ result.column_name = column.name
            /\ result.alias = column.name
            /\ result.target = target
            /\ result.dialect = dialect
            /\ NoCustom => Len(result.warnings) = Cardinality(WarnedSteps))

\* the three kinds of missing template in finished calls: unknown key
\* (cast_uuid), empty template (case_title in T-SQL), dialect without entry
WitC4_UnknownCastKey ==
    /\ pc = "done"
    /\ target = "sql" /\ dialect = "tsql"
    /\ Skipped("type_cast")
    /\ Skipped("case_normalization")
    /\ Skipped("null_strategy")
    /\ result.warnings = <<>>
    /\ result.expression = <<"LTRIM(RTRIM(", "col_a", "))">>

----------------------------------------------------------------------------
\* C5: steps that are enabled with empty data

\* the column with every enabled-but-empty step switched off
Deactivated(col) ==
    LET t == col.transformations IN
    [col EXCEPT
        !.transformations.regex.enabled = t.regex.enabled /\ t.regex.pattern # "",
        !.transformations.where_filter.enabled =
            t.where_filter.enabled /\ t.where_filter.condition # "",
        !.transformations.conditional.enabled =
            t.conditional.enabled /\ t.conditional.cases # <<>>,
        !.transformations.delimiter_split.enabled =
            t.delimiter_split.enabled /\ t.delimiter_split.delimiter # ""]

\* C5: a step enabled with empty required data (conditional without cases,
\* regex without pattern, where filter without condition, delimiter split
\* without delimiter) is treated as inactive: the result is the one of the
\* column with those steps switched off.
CexC5_EmptyDataInactive ==
    (pc = "done" /\ NoCustom) =>
        LET r == CompileColumn(Deactivated(column), target, dialect) IN
        /\ result.expression = r.expression
        /\ result.warnings = r.warnings

----------------------------------------------------------------------------
\* C6: a column without transformation compiles to its bare reference

\* C6: with no active transformation and no custom expression the result is
\* the bare column reference (the name, or F.col('<name>') for the dataframe
\* target) and no warnings, for every dialect.
ThmC6_BareReference ==
    ( /\ pc = "done"
      /\ NoCustom
      /\ \A s \in StepNames : ~Active(s, column.transformations) ) =>
        /\ result.expression =
              IF target = "pyspark" THEN <<"F.col('", column.name, "')">>
              ELSE <<column.name>>
        /\ result.warnings = <<>>

\* a finished dataframe call on an all-default column
WitC6_BarePyspark ==
    /\ pc = "done"
    /\ NoCustom
    /\ target = "pyspark"
    /\ \A s \in StepNames : ~Enabled(s, column.transformations)
    /\ result.expression = <<"F.col('", "col_a", "')">>

----------------------------------------------------------------------------
\* C7: the dataframe target: first applied step and chaining

\* the template with its bare-reference pattern turned into the placeholder
Chained(tmpl) == Replace(tmpl, <<"F.col('", "{col}", "')">>, <<"{col}">>)

\* no step before the current one was applied
NoneAppliedBefore == \A k \in 1..(step_i - 1) : ~Applied(FixedOrder[k])

\* C7: for the dataframe target the first step that is applied is filled with
\* the bare column name, every later applied step has its F.col('{col}')
\* pattern replaced by the whole accumulated expression; a skipped or warned
\* step does not count as the first applied step.
ThmC7_PysparkFirstAndChain ==
    /\ [][\A s \in StepNames :
            (AtStep(s) /\ target = "pyspark" /\ Applied(s)) =>
                LET tmpl == TemplateOf(s, column.transformations, "pyspark") IN
                IF NoneAppliedBefore
                THEN expr' = Fill(tmpl, <<column.name>>, s)
                ELSE expr' = Fill(Chained(tmpl), expr, s)]_vars
    /\ []((pc = "loop" /\ target = "pyspark") =>
            (pyspark_applied <=> ~NoneAppliedBefore))

\* dataframe target: cast_uuid is skipped, null drop only warns, and the
\* delimiter split after them is still filled with the bare column name
WitC7_FirstAfterSkipAndWarning ==
    /\ pc = "done"
    /\ target = "pyspark"
    /\ Skipped("type_cast")
    /\ Warned("null_strategy")
    /\ result.expression =
         <<"F.split(", "F.col('", "col_a", "')", ", '", ";", "').getItem(", "1", ")">>

----------------------------------------------------------------------------
\* C8: the dataframe target ignores the caller's dialect

\* C8: with target pyspark the expression and the warnings are the same for
\* every dialect the caller supplies, and the warnings are those of the
\* dataframe dialect's templates.
ThmC8_PysparkIgnoresDialect ==
    (pc = "done" /\ target = "pyspark") =>
        /\ \A d \in Dialects :
              LET r == CompileColumn(column, "pyspark", d) IN
              /\ result.expression = r.expression
              /\ result.warnings = r.warnings
        /\ NoCustom =>
              Len(result.warnings) =
                Cardinality({s \in StepNames :
                    /\ Active(s, column.transformations)
                    /\ IsWarning(TemplateOf(s, column.transformations, "pyspark"))})

\* a dataframe call made with the T-SQL dialect: regex is applied (T-SQL
\* would only warn) and chained onto trim
WitC8_PysparkWithTsqlDialect ==
    /\ pc = "done"
    /\ target = "pyspark" /\ dialect = "tsql"
    /\ result.warnings = <<>>
    /\ result.expression =
         <<"F.regexp_replace(", "F.trim(", "F.col('", "col_a", "')", ")", ", '",
           "\\d+", "', '", "X", "')">>

----------------------------------------------------------------------------
\* C9: the table warnings are the column warnings, in order

RECURSIVE StepWarnings(_, _, _)
\* the warning messages of the column dict c in the dialect d, for the steps
\* k.. of the fixed order
StepWarnings(c, d, k) ==
    IF k > Len(FixedOrder) THEN <<>>
    ELSE LET s == FixedOrder[k]
             tmpl == TemplateOf(s, c.transformations, d)
         IN (IF Active(s, c.transformations) /\ IsWarning(tmpl)
             THEN <<MessageOf(tmpl)>> ELSE <<>>)
            \o StepWarnings(c, d, k + 1)

\* the warnings of one column: none with a custom expression
ColumnWarnings(c, d) ==
    IF c.transformations.custom_expression # "" THEN <<>>
    ELSE StepWarnings(c, d, 1)

RECURSIVE TableWarnings(_, _, _)
\* the warnings of the columns i.. of the table, column after column
TableWarnings(cols, d, i) ==
    IF i > Len(cols) THEN <<>>
    ELSE ColumnWarnings(cols[i], d) \o TableWarnings(cols, d, i + 1)

\* the dialect whose templates an assembler uses
ArtifactDialect ==
    IF artifact.kind = "pyspark" THEN "pyspark" ELSE table_dialect

\* C9: for each of the three assemblers the table-level warnings are the
\* concatenation of the per-column warnings in table column order, each
\* column's warnings in fixed step order: none dropped, duplicated, reordered.
ThmC9_TableWarningsConcatenation ==
    artifact.kind \in {"sql", "pyspark", "dbt"} =>
        /\ artifact.out.warnings =
              TableWarnings(table_spec.columns, ArtifactDialect, 1)
        /\ artifact.kind # "dbt" =>
              /\ Len(artifact.out.columns) = Len(table_spec.columns)
              /\ \A i \in 1..Len(table_spec.columns) :
                    artifact.out.columns[i].warnings =
                      ColumnWarnings(table_spec.columns[i], ArtifactDialect)

\* T-SQL table phone, name, phone: three warnings of the first column, none
\* of the second, three of the third
WitC9_SixWarningsTsql ==
    /\ artifact.kind = "sql"
    /\ table_dialect = "tsql"
    /\ Len(table_spec.columns) = 3
    /\ table_spec.columns[2].name = "name"
    /\ artifact.out.warnings =
         << <<"strip_special needs REGEXP_REPLACE, not supported in T-SQL">>,
            <<"REGEXP_REPLACE is not supported in T-SQL">>,
            <<"SPLIT_PART is not supported in T-SQL">>,
            <<"strip_special needs REGEXP_REPLACE, not supported in T-SQL">>,
            <<"REGEXP_REPLACE is not supported in T-SQL">>,
            <<"SPLIT_PART is not supported in T-SQL">> >>

----------------------------------------------------------------------------
\* C10: the structure of the SQL artifact

RECURSIVE SelectEntries(_, _)
\* the select list made of one entry per column i.. of the table: the
\* column's compiled expression, " AS ", the column's name
SelectEntries(out, i) ==
    LET n == Len(table_spec.columns) IN
    IF i > n THEN <<>>
    ELSE out.columns[i].expression \o <<" AS ", table_spec.columns[i].name>>
         \o (IF i < n THEN <<",\n        ">> ELSE <<>>)
         \o SelectEntries(out, i + 1)

\* catalog.layer.table, without the catalog part when it is empty or missing
QualifiedSource ==
    LET tb == table_spec.table IN
    IF "catalog" \in DOMAIN project_config /\ project_config.catalog # ""
    THEN <<project_config.catalog, ".", tb.layer, ".", tb.name>>
    ELSE <<tb.layer, ".", tb.name>>

\* number of occurrences of a token in a string
Count(str, tok) == Cardinality({i \in 1..Len(str) : str[i] = tok})

\* C10: the SQL of compile_table_sql starts with WITH cleaned AS, has one
\* "<expression> AS <alias>" entry per column in table column order, reads
\* FROM catalog.layer.table (no catalog part when it is empty or missing) and
\* ends with SELECT * FROM cleaned.
ThmC10_SqlCteStructure ==
    artifact.kind = "sql" =>
        LET out == artifact.out
            n == Len(table_spec.columns)
        IN /\ out.sql[1] = "WITH cleaned AS (\n"
           /\ out.sql[Len(out.sql)] = "SELECT * FROM cleaned"
           /\ Len(out.columns) = n
           /\ \A i \in 1..n :
                 /\ out.columns[i].alias = table_spec.columns[i].name
                 /\ out.columns[i].expression =
                       CompileColumn(ModelValidate(table_spec.columns[i]),
                                     "sql", table_dialect).expression
           /\ Count(out.sql, " AS ") = n
           /\ (\A i, j \in 1..n :
                  table_spec.columns[i].name = table_spec.columns[j].name => i = j)
              => \A i \in 1..n :
                    Cardinality({k \in 1..(Len(out.sql) - 1) :
                        /\ out.sql[k] = " AS "
                        /\ out.sql[k + 1] = table_spec.columns[i].name}) = 1
           /\ out.sql =
                 <<"WITH cleaned AS (\n", "    SELECT\n", "        ">>
                 \o SelectEntries(out, 1)
                 \o <<"\n", "    FROM ">> \o QualifiedSource
                 \o <<"\n", ")\n", "SELECT * FROM cleaned">>

\* the three-column table id, name, email without catalog
WitC10_ThreeColumnsNoCatalog ==
    /\ artifact.kind = "sql"
    /\ table_dialect = "snowflake_sql"
    /\ "catalog" \notin DOMAIN project_config
    /\ artifact.out.sql =
         <<"WITH cleaned AS (\n", "    SELECT\n", "        ",
           "id", " AS ", "id", ",\n        ",
           "UPPER(", "TRIM(", "name", ")", ")", " AS ", "name", ",\n        ",
           "MY_CUSTOM_FUNC(col)", " AS ", "email",
           "\n", "    FROM ", "bronze", ".", "customers",
           "\n", ")\n", "SELECT * FROM cleaned">>

----------------------------------------------------------------------------
\* compile_table_pyspark: the chained calls of the function body

\* the lines of the function body that are a .withColumn call
WithColumnCalls(code) ==
    LET IsCall(l) == l.text # <<>> /\ l.text[1] = ".withColumn('"
    IN SelectSeq(code, IsCall)

\* C11: the function body of compile_table_pyspark on a table of N columns
\* has exactly N chained .withColumn calls, one per column in table column
\* order, each with that column's expression compiled for pyspark; a column
\* with default transformations gets its call with the bare F.col reference.
ThmC11_WithColumnPerColumn ==
    artifact.kind = "pyspark" =>
        LET calls == WithColumnCalls(artifact.out.code)
            n == Len(table_spec.columns)
        IN /\ Len(calls) = n
           /\ \A i \in 1..n :
                LET col == ModelValidate(table_spec.columns[i]) IN
                /\ calls[i].text =
                      <<".withColumn('", col.name, "', ">>
                      \o CompileColumn(col, "pyspark", "pyspark").expression
                      \o <<")">>
                /\ col.transformations = DefaultTransformations
                   => calls[i].text =
                        <<".withColumn('", col.name, "', ",
                          "F.col('", col.name, "')", ")">>
           /\ \A k \in 1..Len(artifact.out.code) :
                LET l == artifact.out.code[k] IN
                (l.text # <<>> /\ l.text[1] = ".withColumn('")
                   => /\ k > 1
                      /\ LET before == artifact.out.code[k - 1].text IN
                         /\ before # <<>>
                         /\ before[1] \in {".withColumn('", "df"}

\* the table name, id, email: the all-default column id between two others
WitC11_DefaultColumnInTheMiddle ==
    /\ artifact.kind = "pyspark"
    /\ Len(table_spec.columns) = 3
    /\ table_spec.columns[1].name = "name"
    /\ table_spec.columns[2].name = "id"
    /\ table_spec.columns[3].name = "email"
    /\ WithColumnCalls(artifact.out.code)[2].text =
          <<".withColumn('", "id", "', ", "F.col('", "id", "')", ")">>

----------------------------------------------------------------------------
\* compile_table_dbt: the source reference and the schema document

\* the positions of the column entries ("- name:" lines under columns:)
NameLines(yml) ==
    {k \in 1..Len(yml) : yml[k] # <<>> /\ yml[k][1] = "      - name: "}

\* the position of the i-th column entry
NthNameLine(yml, i) ==
    CHOOSE k \in NameLines(yml) :
        Cardinality({j \in NameLines(yml) : j < k}) = i - 1

\* the lines of the i-th column entry after its name line
EntryLines(yml, i) ==
    LET from == NthNameLine(yml, i)
        later == {k \in NameLines(yml) : k > from}
        to == IF later = {} THEN Len(yml) + 1
              ELSE CHOOSE k \in later : \A j \in later : k <= j
    IN {yml[k] : k \in (from + 1)..(to - 1)}

\* the note of a column in the table specification
NoteOf(name) ==
    IF name \in DOMAIN table_spec.notes THEN table_spec.notes[name] ELSE ""

\* C12: compile_table_dbt yields model SQL that reads
\* source('<layer>', '<table_name>') and a schema document that lists every
\* column exactly once in table column order, with a not_null test exactly
\* for the non-nullable columns and a description exactly for the columns
\* with a non-empty note.
ThmC12_DbtSourceAndSchema ==
    artifact.kind = "dbt" =>
        LET sql == artifact.out.model_sql
            yml == artifact.out.schema_yml
            n == Len(table_spec.columns)
        IN /\ \E k \in 1..(Len(sql) - 4) :
                 SubSeq(sql, k, k + 4) =
                    <<"    SELECT * FROM {{ source('", table_spec.table.layer,
                      "', '", table_spec.table.name, "') }}\n">>
           /\ Cardinality(NameLines(yml)) = n
           /\ \A i \in 1..n :
                LET col == table_spec.columns[i]
                    entry == EntryLines(yml, i)
                IN /\ yml[NthNameLine(yml, i)] = <<"      - name: ", col.name>>
                   /\ <<"          - not_null">> \in entry <=> ~col.nullable
                   /\ <<"        tests:">> \in entry <=> ~col.nullable
                   /\ (\E l \in entry : l[1] = "        description: \"")
                         <=> NoteOf(col.name) # ""
                   /\ NoteOf(col.name) # ""
                      => <<"        description: \"", NoteOf(col.name), "\"">>
                            \in entry

\* the table id, name, phone with a note on name only: id has the test and
\* no description, name the description and no test
WitC12_NoteAndTestOnDifferentColumns ==
    /\ artifact.kind = "dbt"
    /\ Len(table_spec.columns) = 3
    /\ artifact.out.schema_yml =
         << <<"version: 2">>, <<>>, <<"models:">>,
            <<"  - name: ", "customers">>, <<"    columns:">>,
            <<"      - name: ", "id">>,
            <<"        tests:">>, <<"          - not_null">>,
            <<"      - name: ", "name">>,
            <<"        description: \"", "Full name", "\"">>,
            <<"      - name: ", "phone">>,
            <<"        tests:">>, <<"          - not_null">> >>

----------------------------------------------------------------------------
\* The compiler keeps no state between calls

\* what an assembler returns when called on a compiler that has made no call
FreshArtifact(kind) ==
    CASE kind = "sql" ->
           CompileTableSqlResult(table_spec, table_dialect, project_config)
      [] kind = "pyspark" ->
           CompileTablePysparkResult(table_spec, project_config)
      [] OTHER ->
           CompileTableDbtResult(table_spec, table_dialect, project_config)

\* C13: compile_column and the three assemblers have no side effect: in any
\* sequence of calls on one compiler the column specification, the table
\* specification and the project configuration are never changed, and every
\* call returns what it returns on a compiler that has made no call before;
\* in particular the pyspark "first applied step" flag starts again at false
\* for every column.
ThmC13_CallsKeepNoState ==
    /\ [](pc = "done" => result = CompileColumn(column, target, dialect))
    /\ [](pc = "loop" /\ step_i = 1 => ~pyspark_applied)
    /\ []((assembler = "none" /\ artifact # NoArtifact)
            => artifact.out = FreshArtifact(artifact.kind))
    /\ [][/\ table_spec' = table_spec
          /\ project_config' = project_config
          /\ table_dialect' = table_dialect]_vars
    /\ [][pc \notin {"idle", "done"}
            => column' = column /\ target' = target /\ dialect' = dialect]_vars
    /\ [][(assembler # "none" /\ assembler' # "none")
            => \A i \in 1..Len(loop_results) :
                  /\ i <= Len(loop_results')
                  /\ loop_results'[i] = loop_results[i]]_vars

\* a pyspark call after a finished pyspark call, on a table whose first two
\* columns are both name (trim and upper): the second column is compiled
\* after three compilations that left the flag set
WitC13_SecondCallSecondColumn ==
    /\ artifact.kind = "pyspark"
    /\ assembler = "pyspark"
    /\ col_i = 2
    /\ pc = "done"
    /\ Len(table_spec.columns) >= 2
    /\ table_spec.columns[1].name = "name"
    /\ table_spec.columns[2].name = "name"
    /\ pyspark_applied
    /\ Len(loop_results) = 1
    /\ result = loop_results[1]

----------------------------------------------------------------------------
\* execute_sql

\* the calls that have returned
Returned == {p \in Procs : epc[p] = "done"}

\* the kind of engine failure that the arguments of a call lead to, "" when
\* the query runs
EngineFailure(a) ==
    CASE a.query.kind = "syntax_error" -> "syntax error"
      [] a.data = <<>> \/ a.query.from # a.table_name -> "unknown relation"
      [] a.query.kind = "type_error" -> "type error"
      [] OTHER -> ""

\* the beginning of the engine's message for a kind of failure
MessageHead(failure) ==
    CASE failure = "syntax error" -> "Parser Error: syntax error at or near \""
      [] failure = "unknown relation" -> "Catalog Error: Table with name "
      [] OTHER -> "Conversion Error: Could not convert string to INT32"

\* the failure shape of an execute_sql result
FailureShape(r) ==
    /\ r.success = FALSE
    /\ r.error # <<>>
    /\ r.rows = <<>>
    /\ r.columns = <<>>
    /\ r.row_count = 0

\* C14: every engine failure during execute_sql (unknown relation, type
\* error, syntax error) is caught and returned in the failure shape: success
\* false, a non-empty error text (the engine's message), no rows, no columns,
\* row_count 0; a call whose query runs returns success with an empty error.
ThmC14_EngineFailureReturned ==
    \A p \in Returned :
        LET failure == EngineFailure(eargs[p])
            r == eresult[p]
        IN /\ failure # "" => /\ FailureShape(r)
                              /\ r.error[1] = MessageHead(failure)
           /\ failure = "" => /\ r.success = TRUE
                              /\ r.error = <<>>
                              /\ r.row_count = Len(r.rows)

\* a query that fails while evaluating on the registered relation
WitC14_TypeErrorReturned ==
    \E p \in Returned :
        /\ eargs[p].query = [kind |-> "type_error", from |-> "customers"]
        /\ eargs[p].table_name = "customers"
        /\ eargs[p].data # <<>>
        /\ eresult[p] =
              [success |-> FALSE, rows |-> <<>>, columns |-> <<>>,
               row_count |-> 0,
               error |->
                 <<"Conversion Error: Could not convert string to INT32">>]

\* C15: execute_sql registers the rows under table_name only when there are
\* rows; with no rows nothing is registered, so a query that reads table_name
\* returns the failure shape, never a success with zero rows.
ThmC15_EmptyDataNotRegistered ==
    /\ [][\A p \in Procs :
            (epc[p] = "register" /\ epc'[p] = "execute")
            => DOMAIN conns'[econn[p]].relations =
                  IF eargs[p].data # <<>> THEN {eargs[p].table_name} ELSE {}]_vars
    /\ [](\A p \in Returned :
            (eargs[p].data = <<>> /\ eargs[p].query.from = eargs[p].table_name)
            => /\ FailureShape(eresult[p])
               /\ ~(eresult[p].success /\ eresult[p].row_count = 0))
    /\ [](\A p \in Returned : eresult[p].success => eargs[p].data # <<>>)

\* a select over table_name with no rows given
WitC15_SelectFromUnregistered ==
    \E p \in Returned :
        /\ eargs[p] = [query |-> [kind |-> "select_all", from |-> "orders"],
                       data |-> <<>>, table_name |-> "orders"]
        /\ conns[econn[p]].queries = 0
        /\ eresult[p].error =
              <<"Catalog Error: Table with name ", "orders",
                " does not exist!">>

\* C16: every execute_sql call has closed its engine instance by the time it
\* returns, on the failure path as on the success path.
CexC16_InstanceClosedOnReturn ==
    \A p \in Returned : ~conns[econn[p]].open

\* C17: under any interleaving of execute_sql calls no two calls share an
\* engine instance: an instance holds at most the relation its own call
\* registered, and every call returns what its own arguments determine,
\* whatever the other calls have registered.
ThmC17_CallsIsolated ==
    /\ \A p, q \in Procs :
          (p # q /\ econn[p] # 0 /\ econn[q] # 0) => econn[p] # econn[q]
    /\ \A p \in Procs :
          epc[p] \in {"execute", "fetch"}
          => /\ conns[econn[p]].open
             /\ DOMAIN conns[econn[p]].relations \subseteq {eargs[p].table_name}
             /\ \A n \in DOMAIN conns[econn[p]].relations :
                   conns[econn[p]].relations[n] = DataFrame(eargs[p].data)
    /\ \A p \in Returned :
          /\ eresult[p].success <=> EngineFailure(eargs[p]) = ""
          /\ eresult[p].success
             => /\ eresult[p].columns = DataFrame(eargs[p].data).columns
                /\ Len(eresult[p].rows) =
                      IF eargs[p].query.kind = "select_none" THEN 0
                      ELSE Len(eargs[p].data)
                /\ \A i \in 1..Len(eresult[p].rows) :
                      \A c \in DOMAIN eargs[p].data[i] :
                         eresult[p].rows[i][c] = eargs[p].data[i][c]

\* caller a holds an instance with customers registered while caller b, who
\* connected later and gave no rows, has had its query on customers fail
WitC17_OtherCallersRelationUnseen ==
    /\ epc["a"] = "fetch"
    /\ DOMAIN conns[econn["a"]].relations = {"customers"}
    /\ econn["b"] > econn["a"]
    /\ epc["b"] = "done"
    /\ eargs["b"] = [query |-> [kind |-> "select_all", from |-> "customers"],
                     data |-> <<>>, table_name |-> "orders"]
    /\ eresult["b"].success = FALSE

----------------------------------------------------------------------------
\* generate_assertions, run_assertion, validate_table

\* the entries of a list of assertions (or results) of a type
OfType(list, t) == {k \in 1..Len(list) : list[k].type = t}

\* 1 for true, 0 for false
Ind(b) == IF b THEN 1 ELSE 0

\* C18: generate_assertions returns exactly one row_count_gte assertion with
\* min 1, a not_null assertion on the column exactly when it is not
\* nullable, a type_check assertion exactly when a type cast is configured,
\* a no_error assertion exactly when regex is enabled, and nothing else.
ThmC18_AssertionsOfColumn ==
    vout.op = "generate_assertions" =>
        LET col == vcall.column
            list == vout.value
            t == col.transformations
        IN /\ Cardinality(OfType(list, "row_count_gte")) = 1
           /\ \A k \in OfType(list, "row_count_gte") : list[k].min = 1
           /\ Cardinality(OfType(list, "not_null")) = Ind(~col.nullable)
           /\ Cardinality(OfType(list, "type_check")) = Ind(t.type_cast # "")
           /\ Cardinality(OfType(list, "no_error")) = Ind(t.regex.enabled)
           /\ \A k \in 1..Len(list) :
                 /\ list[k].type \in
                       {"row_count_gte", "not_null", "type_check", "no_error"}
                 /\ list[k].type # "row_count_gte" => list[k].column = col.name
                 /\ list[k].type = "type_check"
                    => list[k].expected_type = t.type_cast
           /\ Len(list) = 1 + Ind(~col.nullable) + Ind(t.type_cast # "")
                            + Ind(t.regex.enabled)

\* a nullable column with a cast and regex: three assertions, no not_null
WitC18_CastAndRegexNullable ==
    /\ vout.op = "generate_assertions"
    /\ vcall.column.nullable
    /\ vcall.column.transformations.type_cast = "integer"
    /\ vcall.column.transformations.regex.enabled
    /\ Len(vout.value) = 3
    /\ vout.value[1].type = "row_count_gte"
    /\ vout.value[2].type = "type_check"
    /\ vout.value[3].type = "no_error"

\* the row-count results of a report, by column
RowCountResults(report) ==
    {e \in UNION {{<<name, k>> :
                      k \in 1..Len(report.columns[name].assertions)} :
                    name \in DOMAIN report.columns} :
        report.columns[e[1]].assertions[e[2]].type = "row_count_gte"}

\* the assertions other than the row count that the columns of a table call
\* for
ConditionalAssertions(ts) ==
    {e \in (1..Len(ts.columns)) \X {"not_null", "type_check", "no_error"} :
        LET col == ts.columns[e[1]] IN
        CASE e[2] = "not_null" -> ~col.nullable
          [] e[2] = "type_check" -> col.transformations.type_cast # ""
          [] OTHER -> col.transformations.regex.enabled}

\* C19 (as stated): the report of validate_table holds exactly one
\* row_count_gte result, whatever the number of columns, and
\* total_assertions counts it once.
CexC19_OneRowCountPerTable ==
    vout.op = "validate_table" =>
        /\ Cardinality(RowCountResults(vout.value)) = 1
        /\ vout.value.total_assertions =
              1 + Cardinality(ConditionalAssertions(vcall.table_spec))

\* C19 (amended): the report of validate_table holds one row_count_gte
\* result per column, N for a table of N columns, next to the conditional
\* assertions of each column, and total_assertions counts every one of them.
ThmC19_RowCountPerColumn ==
    vout.op = "validate_table" =>
        LET ts == vcall.table_spec
            report == vout.value
            n == Len(ts.columns)
        IN /\ DOMAIN report.columns = {ts.columns[i].name : i \in 1..n}
           /\ \A name \in DOMAIN report.columns :
                 Cardinality(OfType(report.columns[name].assertions,
                                    "row_count_gte")) = 1
           /\ Cardinality(RowCountResults(report)) = n
           /\ report.total_assertions =
                 n + Cardinality(ConditionalAssertions(ts))

\* a table of three columns: three row-count results
WitC19_ThreeColumnsThreeRowCounts ==
    /\ vout.op = "validate_table"
    /\ Len(vcall.table_spec.columns) = 3
    /\ vcall.table_spec.columns[1].name = "id"
    /\ vcall.table_spec.columns[2].name = "name"
    /\ vcall.table_spec.columns[3].name = "amount"
    /\ Cardinality(RowCountResults(vout.value)) = 3
    /\ vout.value.total_assertions = 5

\* the rows in which column c is absent or null
NullRows(rows, c) ==
    {i \in 1..Len(rows) : c \notin DOMAIN rows[i] \/ rows[i][c] = None}

\* C20: a not_null assertion on column c passes exactly when no row has c
\* absent or null; with k >= 1 such rows it fails with a detail that states
\* k.  In validate_table such a failure makes the column's passed and the
\* report's passed false, while the row-count assertion of the same column
\* passes whenever at least one row was returned.
ThmC20_NotNullCountsNulls ==
    /\ (vout.op = "run_assertion" /\ vcall.assertion.type = "not_null")
       => LET c == vcall.assertion.column
              k == Cardinality(NullRows(vcall.rows, c))
          IN /\ vout.value.passed <=> k = 0
             /\ k = 0 => vout.value.detail = <<>>
             /\ k >= 1 => vout.value.detail =
                             <<Digits[k + 1], " null(s) found in '", c, "'">>
    /\ (/\ vout.op = "validate_table"
        /\ vcall.compiled_sql.kind = "select_all"
        /\ vout.value.execution.success)
       => \A i \in 1..Len(vcall.table_spec.columns) :
             LET col == vcall.table_spec.columns[i]
                 k == Cardinality(NullRows(vcall.synthetic_data, col.name))
                 entry == vout.value.columns[col.name]
             IN ~col.nullable
                => /\ \A j \in OfType(entry.assertions, "not_null") :
                         /\ entry.assertions[j].passed <=> k = 0
                         /\ k >= 1 => entry.assertions[j].detail =
                                        <<Digits[k + 1], " null(s) found in '",
                                          col.name, "'">>
                   /\ k >= 1 => /\ ~entry.passed
                                /\ ~vout.value.passed
                                /\ vout.value.failed_count >= 1
                   /\ vout.value.execution.row_count >= 1
                      => \A j \in OfType(entry.assertions, "row_count_gte") :
                            entry.assertions[j].passed

\* two rows, id null in one and absent from the other: not_null on id fails
\* with "2 null(s) found in 'id'", the row count of id passes
WitC20_TwoNullIds ==
    /\ vout.op = "validate_table"
    /\ vcall.synthetic_data = << [id |-> None, name |-> "b"], [name |-> "c"] >>
    /\ vout.value.execution.row_count = 2
    /\ "id" \in DOMAIN vout.value.columns
    /\ vout.value.columns["id"].assertions[1].type = "row_count_gte"
    /\ vout.value.columns["id"].assertions[1].passed
    /\ vout.value.columns["id"].assertions[2].detail =
          <<"2", " null(s) found in '", "id", "'">>
    /\ ~vout.value.columns["id"].passed
    /\ ~vout.value.passed

----------------------------------------------------------------------------
\* The validation report

\* the assertion results of a report, by column name and position
ReportResults(report) ==
    UNION {{<<name, k>> : k \in 1..Len(report.columns[name].assertions)} :
              name \in DOMAIN report.columns}

\* the assertion result at an entry
ResultAt(report, e) == report.columns[e[1]].assertions[e[2]]

\* C21: in a validation report a type_check or no_error result with passed
\* true implies that the execution step succeeded.
CexC21_ProxyPassImpliesExecuted ==
    vout.op = "validate_table" =>
        \A e \in ReportResults(vout.value) :
            (/\ ResultAt(vout.value, e).type \in {"type_check", "no_error"}
             /\ ResultAt(vout.value, e).passed)
            => vout.value.execution.success

\* the assertion types that run_assertion knows
KnownTypes == {"row_count_gte", "not_null", "type_check", "no_error"}

\* C22: run_assertion on an assertion whose type is not row_count_gte,
\* not_null, type_check or no_error returns a result with passed false and
\* the detail "Unknown assertion type: <type>", whatever the rows.
ThmC22_UnknownTypeFails ==
    (vout.op = "run_assertion" /\ vcall.assertion.type \notin KnownTypes)
    => vout.value =
          [type |-> vcall.assertion.type,
           description |-> vcall.assertion.description,
           passed |-> FALSE,
           detail |-> <<"Unknown assertion type: ", vcall.assertion.type>>]

\* the assertion of type unique run on two rows
WitC22_UniqueOnTwoRows ==
    /\ vout.op = "run_assertion"
    /\ vcall.assertion.type = "unique"
    /\ Len(vcall.rows) = 2
    /\ vout.value.passed = FALSE
    /\ vout.value.detail = <<"Unknown assertion type: ", "unique">>

\* C23: the top-level passed of a report is true exactly when at least one
\* assertion was run and every assertion result passed; total_assertions =
\* passed_count + failed_count; a table without columns gives passed false.
ThmC23_PassedIffAllOfSome ==
    vout.op = "validate_table" =>
        LET report == vout.value
            results == ReportResults(report)
        IN /\ report.passed
              <=> /\ results # {}
                  /\ \A e \in results : ResultAt(report, e).passed
           /\ report.total_assertions = Cardinality(results)
           /\ report.passed_count =
                 Cardinality({e \in results : ResultAt(report, e).passed})
           /\ report.failed_count =
                 Cardinality({e \in results : ~ResultAt(report, e).passed})
           /\ report.total_assertions =
                 report.passed_count + report.failed_count
           /\ vcall.table_spec.columns = <<>>
              => ~report.passed /\ report.total_assertions = 0

\* a table without columns whose query returns two rows
WitC23_NoColumnsNotPassed ==
    /\ vout.op = "validate_table"
    /\ vcall.table_spec.columns = <<>>
    /\ vout.value.execution.success
    /\ vout.value.execution.row_count = 2
    /\ vout.value.total_assertions = 0
    /\ ~vout.value.passed

\* the arguments of the execute step of a validate_table call
ExecuteArgs ==
    [query |-> vcall.compiled_sql, data |-> vcall.synthetic_data,
     table_name |-> vcall.table_spec.table.name]

\* C24: validate_table always returns a complete report; its execution block
\* carries the success flag, row count and error text of the execute step,
\* whatever the assertion results are, and a failed execution gives
\* execution.success false with the engine's error text.
ThmC24_ExecutionBlockOfRun ==
    vout.op = "validate_table" =>
        LET report == vout.value
            failure == EngineFailure(ExecuteArgs)
        IN /\ DOMAIN report = {"passed", "total_assertions", "passed_count",
                               "failed_count", "execution", "columns"}
           /\ DOMAIN report.execution = {"success", "row_count", "error"}
           /\ DOMAIN report.columns =
                 {vcall.table_spec.columns[i].name :
                     i \in 1..Len(vcall.table_spec.columns)}
           /\ report.execution.success <=> failure = ""
           /\ failure # ""
              => /\ report.execution.error # <<>>
                 /\ report.execution.error[1] = MessageHead(failure)
                 /\ report.execution.row_count = 0
           /\ failure = ""
              => /\ report.execution.error = <<>>
                 /\ report.execution.row_count =
                       IF vcall.compiled_sql.kind = "select_none" THEN 0
                       ELSE Len(vcall.synthetic_data)

\* a query on an unregistered relation: the report has the catalog error
\* next to assertion results of which some passed
WitC24_FailedRunFullReport ==
    /\ vout.op = "validate_table"
    /\ vcall.compiled_sql = [kind |-> "select_all", from |-> "orders"]
    /\ vout.value.execution =
          [success |-> FALSE, row_count |-> 0,
           error |-> <<"Catalog Error: Table with name ", "orders",
                       " does not exist!">>]
    /\ vout.value.passed_count >= 1
    /\ vout.value.failed_count >= 1

\* C29: a report with passed true has execution.success true and
\* execution.row_count >= 1; for a table with at least one column a failed
\* execution, or a successful one without result rows, never passes.
ThmC29_PassNeedsRows ==
    vout.op = "validate_table" =>
        LET report == vout.value
        IN /\ report.passed
              => /\ report.execution.success
                 /\ report.execution.row_count >= 1
           /\ (/\ vcall.table_spec.columns # <<>>
               /\ \/ ~report.execution.success
                  \/ report.execution.row_count = 0)
              => /\ ~report.passed
                 /\ \E e \in ReportResults(report) :
                        /\ ResultAt(report, e).type = "row_count_gte"
                        /\ ~ResultAt(report, e).passed

\* a successful run without result rows on a table whose only column is
\* nullable: the row-count assertion alone keeps the report from passing
WitC29_ZeroRowsNotPassed ==
    /\ vout.op = "validate_table"
    /\ Len(vcall.table_spec.columns) = 1
    /\ vcall.table_spec.columns[1].nullable
    /\ vcall.synthetic_data # <<>>
    /\ vout.value.execution.success
    /\ vout.value.execution.row_count = 0
    /\ vout.value.failed_count = 1
    /\ ~vout.value.passed

----------------------------------------------------------------------------
\* The select list of the cleaned CTE

\* the tokens that separate two entries of a select list
EntrySeparators == {",\n        ", ",\n    "}

\* the tokens of the select list of the cleaned CTE: from behind the
\* indentation that follows "    SELECT\n" up to the line break before FROM
CleanedSelect(text) ==
    LET from == IndexOf(text, "    SELECT\n") + 2
        ends == {k \in from..(Len(text) - 1) :
                    /\ text[k] = "\n"
                    /\ text[k + 1] \in {"    FROM ", "    FROM source\n"}}
        to == CHOOSE k \in ends : \A j \in ends : k <= j
    IN SubSeq(text, from, to - 1)

RECURSIVE SplitEntries(_)
\* the entries of a select list
SplitEntries(list) ==
    LET seps == {k \in 1..Len(list) : list[k] \in EntrySeparators} IN
    IF seps = {} THEN <<list>>
    ELSE LET k == CHOOSE i \in seps : \A j \in seps : i <= j
         IN <<SubSeq(list, 1, k - 1)>>
            \o SplitEntries(SubSeq(list, k + 1, Len(list)))

\* C28: for the same table specification and dialect the model SQL of
\* compile_table_dbt has the same select entries (expression AS alias), in
\* the same order, and the same warnings as the output of compile_table_sql;
\* the SQL differs only in the source reference and the indentation.
ThmC28_DbtCompilesLikeSql ==
    artifact.kind = "dbt" =>
        LET dbt == artifact.out
            sql == CompileTableSqlResult(table_spec, table_dialect,
                                         project_config)
            entries == SplitEntries(CleanedSelect(dbt.model_sql))
        IN /\ entries = SplitEntries(CleanedSelect(sql.sql))
           /\ dbt.warnings = sql.warnings
           /\ table_spec.columns # <<>>
              => /\ Len(entries) = Len(table_spec.columns)
                 /\ \A i \in 1..Len(entries) :
                       entries[i] = sql.columns[i].expression
                                    \o <<" AS ", sql.columns[i].alias>>
           /\ dbt.model_sql[Len(dbt.model_sql) - 2] = "    FROM source\n"
           /\ dbt.model_sql[Len(dbt.model_sql)] = sql.sql[Len(sql.sql)]

\* the model bundle of a three-column table compiled for T-SQL, whose
\* expressions and warnings differ from those of Snowflake
WitC28_DbtThreeColumnsTsql ==
    /\ artifact.kind = "dbt"
    /\ table_dialect = "tsql"
    /\ Len(table_spec.columns) = 3
    /\ Len(SplitEntries(CleanedSelect(artifact.out.model_sql))) = 3
    /\ artifact.out.warnings # <<>>
    /\ artifact.out.warnings #
          CompileTableSqlResult(table_spec, "snowflake_sql",
                                project_config).warnings

----------------------------------------------------------------------------
\* The first dataframe step and the chaining rule

\* the dataframe templates that are patterns (neither absent nor warnings)
PysparkPatterns ==
    {TemplateGet(k, "pyspark") : k \in DOMAIN TEMPLATES}
        \ ({<<>>} \cup {t \in {TemplateGet(k, "pyspark") : k \in DOMAIN TEMPLATES} :
                            StartsWith(t, WARNING_PREFIX)})

\* every dataframe template refers to the column only inside F.col('{col}')
BareReferenceOnly ==
    \A t \in PysparkPatterns :
        \A k \in 1..Len(t) :
            t[k] = "{col}"
            => /\ k > 1 /\ k < Len(t)
               /\ SubSeq(t, k - 1, k + 1) = PYSPARK_COL_PATTERN

RECURSIVE ChainFold(_, _, _)
\* the locals after the steps 1..n of the loop when every applied step,
\* the first included, follows the chaining rule on F.col('<name>')
ChainFold(n, col, seed) ==
    IF n = 0 THEN seed
    ELSE StepBody(TRANSFORM_ORDER[n], ChainFold(n - 1, col, seed), col,
                  "pyspark", "pyspark")

\* the seed of the uniform fold: the bare reference, chaining from the start
ChainSeed(col) == Locals(InitialExpr(col.name, "pyspark"), <<>>, TRUE)

\* C30: for target pyspark, when every template refers to the column only
\* through F.col('{col}'), the expression after any number of loop steps, and
\* the returned expression, equal the fold of the chaining rule over the
\* steps starting from F.col('<name>'): the first applied step is no special
\* case.
ThmC30_FirstStepIsChainStep ==
    (BareReferenceOnly /\ target = "pyspark" /\ NoCustom)
    => /\ pc = "loop"
          => /\ expr = ChainFold(step_i - 1, column, ChainSeed(column)).expr
             /\ warnings =
                   ChainFold(step_i - 1, column, ChainSeed(column)).warnings
       /\ pc = "done"
          => result.expression =
                ChainFold(Len(TRANSFORM_ORDER), column,
                          ChainSeed(column)).expr

\* a pyspark call whose first applied step is regex, after trim was off,
\* followed by a second applied step
WitC30_FirstStepLate ==
    /\ BareReferenceOnly
    /\ pc = "done"
    /\ target = "pyspark"
    /\ NoCustom
    /\ ~column.transformations.trim
    /\ ~column.transformations.strip_special_chars
    /\ column.transformations.regex.enabled
    /\ result.expression # InitialExpr(column.name, "pyspark")
    /\ Len(result.expression) > 9

----------------------------------------------------------------------------
\* Project store (app/services/project_manager.py): the disk is the set of
\* its directories and the content of its files, keyed by path

\* what a ProjectManager method does: the disk afterwards, the name of the
\* exception raised ("" when none) and the value returned or the message
Outcome(d, raised, value) == [disk |-> d, raised |-> raised, value |-> value]

\* path.exists()
PathExists(d, path) == path \in d.dirs \/ path \in DOMAIN d.files

\* path.mkdir(parents=True, exist_ok=True)
MkdirParents(d, path) ==
    [d EXCEPT !.dirs = @ \cup {SubSeq(path, 1, k) : k \in 1..Len(path)}]

\* path.write_text(content), the parent directory being there
WriteText(d, path, content) ==
    [d EXCEPT !.files = [p \in DOMAIN d.files \cup {path} |->
                            IF p = path THEN content ELSE d.files[p]]]

\* the parent directory of a path exists
ParentExists(d, path) ==
    Len(path) = 1 \/ SubSeq(path, 1, Len(path) - 1) \in d.dirs

\* _project_path(name): projects_dir / "<name>.tforge"
ProjectPath(name) == <<name>>

\* _table_path(project_name, layer, table_name)
TablePath(project_name, layer, table_name) ==
    ProjectPath(project_name) \o <<layer, table_name>>

\* the layers whose directories create_project makes
Layers == {"bronze", "silver", "gold"}

\* ProjectConfig(...).model_dump(mode="json")
ConfigDump(req, now) ==
    [name |-> req.name, platform |-> req.platform, dialect |-> req.dialect,
     catalog |-> req.catalog, schema_layer |-> req.schema_layer,
     created_at |-> now]

\* a variant of create_project that writes project.json before it looks
\* whether the project exists
CreateProjectWritesFirst(d, req, now) ==
    LET project_path == ProjectPath(req.name)
        data == ConfigDump(req, now)
        made == [MkdirParents(d, project_path) EXCEPT
                    !.dirs = @ \cup {project_path \o <<layer>> : layer \in Layers}]
        written == WriteText(made, project_path \o <<"project.json">>, data)
    IN IF PathExists(d, project_path)
       THEN Outcome(written, "ValueError",
                    <<"Project '", req.name, "' already exists">>)
       ELSE Outcome(written, "", data)

\* create_project(req); now is the value of datetime.now(timezone.utc)
CreateProject(d, req, now) ==
    LET project_path == ProjectPath(req.name) IN
    IF PathExists(d, project_path)
    THEN Outcome(d, "ValueError", <<"Project '", req.name, "' already exists">>)
    ELSE LET data == ConfigDump(req, now)
             made == [MkdirParents(d, project_path) EXCEPT
                         !.dirs = @ \cup {project_path \o <<layer>> :
                                             layer \in Layers}]
         IN Outcome(WriteText(made, project_path \o <<"project.json">>, data),
                    "", data)

\* get_project(name)
GetProject(d, name) ==
    LET config_file == ProjectPath(name) \o <<"project.json">> IN
    IF ~PathExists(d, config_file)
    THEN Outcome(d, "FileNotFoundError", <<"Project '", name, "' not found">>)
    ELSE Outcome(d, "", d.files[config_file])

\* Column(name=..., data_type=..., nullable=...).model_dump(mode="json")
DefaultColumn(col) ==
    ColumnDict(col.name, col.data_type, col.nullable, DefaultTransformations)

\* create_table(project_name, req)
CreateTable(d, project_name, req) ==
    LET project_path == ProjectPath(project_name) IN
    IF ~PathExists(d, project_path)
    THEN Outcome(d, "FileNotFoundError",
                 <<"Project '", project_name, "' not found">>)
    ELSE LET table_path == TablePath(project_name, req.layer, req.name)
             schema == req.columns
             default_columns ==
                 [i \in 1..Len(req.columns) |-> DefaultColumn(req.columns[i])]
             notes == [n \in {req.columns[i].name : i \in 1..Len(req.columns)}
                          |-> ""]
             d1 == MkdirParents(d, table_path)
             d2 == WriteText(d1, table_path \o <<"schema.json">>, schema)
             d3 == WriteText(d2, table_path \o <<"transformations.json">>,
                             default_columns)
             d4 == WriteText(d3, table_path \o <<"column_notes.json">>, notes)
             project == GetProject(d4, project_name)
         IN IF project.raised # ""
            THEN Outcome(d4, project.raised, project.value)
            ELSE Outcome(d4, "",
                         [project |-> project.value,
                          table |-> [name |-> req.name, layer |-> req.layer],
                          columns |-> default_columns, notes |-> notes])

\* get_table_spec(project_name, layer, table_name)
GetTableSpec(d, project_name, layer, table_name) ==
    LET table_path == TablePath(project_name, layer, table_name)
        columns_file == table_path \o <<"transformations.json">>
        notes_file == table_path \o <<"column_notes.json">>
        project == GetProject(d, project_name)
    IN IF ~PathExists(d, columns_file)
       THEN Outcome(d, "FileNotFoundError", <<"transformations.json">>)
       ELSE IF ~PathExists(d, notes_file)
       THEN Outcome(d, "FileNotFoundError", <<"column_notes.json">>)
       ELSE IF project.raised # ""
       THEN Outcome(d, project.raised, project.value)
       ELSE Outcome(d, "",
                    [project |-> project.value,
                     table |-> [name |-> table_name, layer |-> layer],
                     columns |-> d.files[columns_file],
                     notes |-> d.files[notes_file]])

\* save_transformations(project_name, layer, table_name, columns)
SaveTransformations(d, project_name, layer, table_name, columns) ==
    LET out == TablePath(project_name, layer, table_name)
                  \o <<"transformations.json">>
    IN IF ~ParentExists(d, out)
       THEN Outcome(d, "FileNotFoundError", <<"transformations.json">>)
       ELSE Outcome(WriteText(d, out, columns), "", <<>>)

\* ProjectManager._FORMATS
FORMATS == <<"csv", "json", "ndjson", "xlsx", "parquet">>

\* the file name of the synthetic data in a format
SyntheticFile(format) ==
    [csv |-> "synthetic_data.csv", json |-> "synthetic_data.json",
     ndjson |-> "synthetic_data.ndjson", xlsx |-> "synthetic_data.xlsx",
     parquet |-> "synthetic_data.parquet"][format]

\* save_synthetic_data(project_name, layer, table_name, data, format): the
\* file holds the frame pd.DataFrame(data), written by the format's writer
SaveSyntheticData(d, project_name, layer, table_name, data, format) ==
    IF format \notin {FORMATS[k] : k \in 1..Len(FORMATS)}
    THEN Outcome(d, "ValueError", <<"Unsupported format: ", format>>)
    ELSE LET table_path == TablePath(project_name, layer, table_name)
             df == DataFrame(data)
             out == table_path \o <<SyntheticFile(format)>>
         IN IF ~ParentExists(d, out)
            THEN Outcome(d, "OSError", <<"synthetic_data">>)
            ELSE Outcome(WriteText(d, out, [writer |-> format, frame |-> df]),
                         "", <<>>)

\* df.to_dict(orient="records")
ToRecords(df) == [i \in 1..Len(df.rows) |-> Zip(df.columns, df.rows[i])]

\* get_synthetic_data(project_name, layer, table_name): the first file of
\* the loop over _FORMATS that exists is read and returned
GetSyntheticData(d, project_name, layer, table_name) ==
    LET table_path == TablePath(project_name, layer, table_name)
        candidate(k) == table_path \o <<SyntheticFile(FORMATS[k])>>
        found == {k \in 1..Len(FORMATS) : PathExists(d, candidate(k))}
    IN IF found = {}
       THEN Outcome(d, "FileNotFoundError",
                    <<"No synthetic data found for this table">>)
       ELSE LET k == CHOOSE i \in found : \A j \in found : i <= j
                fmt == FORMATS[k]
                df == d.files[candidate(k)].frame
                data == ToRecords(df)
            IN Outcome(d, "", [data |-> data, format |-> fmt,
                               row_count |-> Len(data)])

\* save_validation_results(project_name, layer, table_name, results)
SaveValidationResults(d, project_name, layer, table_name, results) ==
    LET out == TablePath(project_name, layer, table_name)
                  \o <<"validation_results.json">>
    IN IF ~ParentExists(d, out)
       THEN Outcome(d, "FileNotFoundError", <<"validation_results.json">>)
       ELSE Outcome(WriteText(d, out, results), "", <<>>)

----------------------------------------------------------------------------
\* The application's routes (app/main.py, app/api/*.py).  A path is the
\* sequence of its segments: "/api/projects/" is <<"api", "projects", "">>.

Route(method, path, endpoint) ==
    [method |-> method, path |-> path, endpoint |-> endpoint]

\* app.include_router(router, prefix=prefix)
IncludeRouter(router, prefix) ==
    [i \in 1..Len(router) |-> [router[i] EXCEPT !.path = prefix \o @]]

\* the path of a table below a router's prefix
TablePattern == <<"{project_name}", "tables", "{layer}", "{table_name}">>

\* app/api/projects.py
ProjectsRouter ==
    <<Route("POST", <<"">>, "projects.create_project"),
      Route("GET", <<"">>, "projects.list_projects"),
      Route("GET", <<"{project_name}">>, "projects.get_project"),
      Route("GET", <<"{project_name}", "tables">>, "projects.list_tables"),
      Route("POST", <<"{project_name}", "tables">>, "projects.create_table")>>

\* app/api/tables.py
TablesRouter ==
    <<Route("GET", TablePattern, "tables.get_table_spec"),
      Route("PUT", TablePattern \o <<"transformations">>,
            "tables.save_transformations"),
      Route("PUT", TablePattern \o <<"notes">>, "tables.save_notes"),
      Route("GET", TablePattern \o <<"synthetic-data">>,
            "tables.get_synthetic_data"),
      Route("GET", TablePattern \o <<"validation">>,
            "tables.get_validation_results")>>

\* app/api/execute.py
ExecuteRouter ==
    <<Route("POST", <<"sql">>, "execute.execute_sql"),
      Route("POST", <<"validate">>, "execute.validate")>>

\* app/api/compile.py
CompileRouter ==
    <<Route("POST", <<"sql">>, "compile.compile_sql"),
      Route("POST", <<"pyspark">>, "compile.compile_pyspark"),
      Route("POST", <<"dbt">>, "compile.compile_dbt"),
      Route("POST", <<"all">>, "compile.compile_all")>>

\* app/api/llm.py
LlmRouter ==
    <<Route("GET", <<"status">>, "llm.llm_status"),
      Route("POST", <<"generate-data">>, "llm.generate_data")>>

\* the routes of the application, in registration order
AppRoutes ==
    <<Route("GET", <<"health">>, "health")>>
    \o IncludeRouter(ProjectsRouter, <<"api", "projects">>)
    \o IncludeRouter(TablesRouter, <<"api", "tables">>)
    \o IncludeRouter(ExecuteRouter, <<"api", "execute">>)
    \o IncludeRouter(CompileRouter, <<"api", "compile">>)
    \o IncludeRouter(LlmRouter, <<"api", "llm">>)

\* a path parameter of a route
IsParam(seg) == seg \in {"{project_name}", "{layer}", "{table_name}"}

\* the path of a request matches the path of a route: a parameter matches
\* any non-empty segment
PathMatches(pattern, path) ==
    /\ Len(pattern) = Len(path)
    /\ \A k \in 1..Len(path) :
          IF IsParam(pattern[k]) THEN path[k] # "" ELSE pattern[k] = path[k]

\* the value of a path parameter
PathParam(pattern, path, name) ==
    path[CHOOSE k \in 1..Len(pattern) : pattern[k] = name]

\* the path with its trailing slash added or removed
ToggleSlash(path) ==
    IF path[Len(path)] = "" THEN SubSeq(path, 1, Len(path) - 1)
    ELSE Append(path, "")

\* the router's decision: the index of the first route that matches path and
\* method; otherwise 405 when only a path matches, 307 when the path with
\* the other trailing slash matches, and 404
Dispatch(routes, method, path) ==
    LET full == {i \in 1..Len(routes) :
                    /\ PathMatches(routes[i].path, path)
                    /\ routes[i].method = method}
        partial == {i \in 1..Len(routes) : PathMatches(routes[i].path, path)}
        slash == {i \in 1..Len(routes) :
                    PathMatches(routes[i].path, ToggleSlash(path))}
    IN IF full # {}
       THEN [status |-> 0,
             route |-> CHOOSE i \in full : \A j \in full : i <= j]
       ELSE IF partial # {} THEN [status |-> 405, route |-> 0]
       ELSE IF slash # {} THEN [status |-> 307, route |-> 0]
       ELSE [status |-> 404, route |-> 0]

\* what the application does with a request: the disk afterwards, the
\* status code and the body of the response
Response(d, status, body) == [disk |-> d, status |-> status, body |-> body]

\* raise HTTPException(status_code=status, detail=str(e))
HttpError(d, status, detail) == Response(d, status, [detail |-> detail])

\* generic_exception_handler
InternalError(d, raised, detail) ==
    Response(d, 500, [error |-> raised, detail |-> detail, status_code |-> 500])

\* projects.create_project
CreateProjectEndpoint(d, req, now) ==
    LET made == CreateProject(d, req, now) IN
    IF made.raised = "ValueError" THEN HttpError(made.disk, 409, made.value)
    ELSE Response(made.disk, 201, made.value)

\* projects.create_table
CreateTableEndpoint(d, project_name, req) ==
    LET made == CreateTable(d, project_name, req) IN
    IF made.raised = "FileNotFoundError"
    THEN HttpError(made.disk, 404, made.value)
    ELSE Response(made.disk, 201, made.value)

\* tables.save_transformations
SaveTransformationsEndpoint(d, project_name, layer, table_name, req) ==
    LET columns == req.columns
        saved == SaveTransformations(d, project_name, layer, table_name,
                                     columns)
        spec == GetTableSpec(saved.disk, project_name, layer, table_name)
    IN IF saved.raised # ""
       THEN InternalError(saved.disk, saved.raised, saved.value)
       ELSE IF spec.raised # ""
       THEN InternalError(spec.disk, spec.raised, spec.value)
       ELSE Response(spec.disk, 200, spec.value)

\* compile.compile_all
CompileAllEndpoint(d, req) ==
    LET spec == GetTableSpec(d, req.project_name, req.layer, req.table_name)
        project == GetProject(d, req.project_name)
    IN IF spec.raised = "FileNotFoundError"
       THEN HttpError(d, 404, spec.value)
       ELSE IF project.raised = "FileNotFoundError"
       THEN HttpError(d, 404, project.value)
       ELSE Response(d, 200,
               [sql |-> CompileTableSqlResult(spec.value, req.dialect,
                                              project.value),
                pyspark |-> CompileTablePysparkResult(spec.value,
                                                      project.value),
                dbt |-> CompileTableDbtResult(spec.value, req.dialect,
                                              project.value)])

\* execute.validate
ValidateEndpoint(d, req) ==
    LET synthetic == GetSyntheticData(d, req.project_name, req.layer,
                                      req.table_name)
        spec == GetTableSpec(d, req.project_name, req.layer, req.table_name)
    IN IF synthetic.raised = "FileNotFoundError"
       THEN HttpError(d, 404, synthetic.value)
       ELSE IF spec.raised = "FileNotFoundError"
       THEN HttpError(d, 404, spec.value)
       ELSE LET report == ValidateTable(spec.value, req.compiled_sql,
                                        synthetic.value.data)
                saved == SaveValidationResults(d, req.project_name, req.layer,
                                               req.table_name, report)
            IN IF saved.raised # ""
               THEN InternalError(saved.disk, saved.raised, saved.value)
               ELSE Response(saved.disk, 200, report)

\* the application serving a request whose body is valid for the endpoint
App(routes, d, request, now) ==
    LET found == Dispatch(routes, request.method, request.path) IN
    IF found.status # 0
    THEN Response(d, found.status, [detail |-> <<"no route">>])
    ELSE LET route == routes[found.route]
             param(name) == PathParam(route.path, request.path, name)
         IN CASE route.endpoint = "projects.create_project" ->
                    CreateProjectEndpoint(d, request.json, now)
              [] route.endpoint = "projects.create_table" ->
                    CreateTableEndpoint(d, param("{project_name}"),
                                        request.json)
              [] route.endpoint = "tables.save_transformations" ->
                    SaveTransformationsEndpoint(d, param("{project_name}"),
                        param("{layer}"), param("{table_name}"), request.json)
              [] route.endpoint = "compile.compile_all" ->
                    CompileAllEndpoint(d, request.json)
              [] route.endpoint = "execute.validate" ->
                    ValidateEndpoint(d, request.json)

----------------------------------------------------------------------------
\* Requests to the application and calls of the ProjectManager on one
\* projects directory, in any order

\* the values of datetime.now at the create_project calls
Times == {"2026-01-01T00:00:00Z", "2026-01-02T00:00:00Z"}

\* CreateProjectRequest bodies
ProjectRequests ==
    {[name |-> "test_bank", platform |-> "databricks",
      dialect |-> "snowflake_sql", catalog |-> c, schema_layer |-> "bronze"] :
        c \in {"hive_metastore", ""}}

\* CreateTableRequest bodies
TableRequests ==
    {[name |-> "customers", layer |-> "bronze",
      columns |-> <<ColumnDict("id", "integer", FALSE, DefaultTransformations),
                    ColumnDict("name", "string", TRUE,
                               DefaultTransformations)>>]}

\* UpdateTransformationsRequest bodies
TransformationRequests ==
    {[columns |-> <<ColumnDict("id", "integer", FALSE, DefaultTransformations),
                    ColumnDict("name", "string", TRUE,
                        [DefaultTransformations EXCEPT
                            !.trim = TRUE,
                            !.case_normalization = "upper"])>>]}

\* CompileRequest bodies
CompileRequests ==
    {[project_name |-> "test_bank", layer |-> "bronze",
      table_name |-> "customers", target |-> "all",
      dialect |-> "snowflake_sql"]}

\* ValidateRequest bodies
ValidateRequests ==
    {[project_name |-> "test_bank", layer |-> "bronze",
      table_name |-> "customers", compiled_sql |-> q] :
        q \in {[kind |-> "select_all", from |-> "customers"],
               [kind |-> "syntax_error", from |-> "SELEC"]}}

\* the rows given to save_synthetic_data: one row and two rows
SyntheticDataValues ==
    {<<[id |-> "1", name |-> "a"]>>,
     <<[id |-> "1", name |-> "a"], [id |-> "2", name |-> "b"]>>}

\* the formats given to save_synthetic_data, yaml being unsupported
FormatValues == {"csv", "json", "parquet", "yaml"}

\* the table the requests and calls are about
TheTable == [project_name |-> "test_bank", layer |-> "bronze",
             table_name |-> "customers"]

\* the path of a table's transformations below a mount point
TransformationsUrl(mount) ==
    <<"api", mount, TheTable.project_name, "tables", TheTable.layer,
      TheTable.table_name, "transformations">>

StoreInit ==
    /\ StoreIdle
    /\ ColumnIdle
    /\ TableIdle
    /\ AssemblerIdle
    /\ ExecIdle
    /\ MethodIdle

\* a request
Request(method, path, json) ==
    [method |-> method, path |-> path, json |-> json]

\* the record of a request and of its response
Served(request, served) ==
    [op |-> "request", method |-> request.method, path |-> request.path,
     json |-> request.json, status |-> served.status, body |-> served.body]

\* the record of a ProjectManager call and of its outcome
Called(op, args, out) ==
    [op |-> op, args |-> args, raised |-> out.raised, value |-> out.value]

\* the application serves request on the disk: what it does
Handle(request, now) == App(AppRoutes, disk, request, now)

\* a request is served
Serve(request, served) ==
    /\ disk' = served.disk
    /\ reply' = Served(request, served)
    /\ UNCHANGED NotStoreVars

\* the requests of the actions
PostProjectsRequest(req) == Request("POST", <<"api", "projects", "">>, req)

PostTablesRequest(req) ==
    Request("POST", <<"api", "projects", TheTable.project_name, "tables">>, req)

PutTransformationsRequest(mount, req) ==
    Request("PUT", TransformationsUrl(mount), req)

PostCompileAllRequest(req) ==
    Request("POST", <<"api", "compile", "all">>, req)

PostValidateRequest(req) ==
    Request("POST", <<"api", "execute", "validate">>, req)

\* POST /api/projects/
PostProjects ==
    \E req \in ProjectRequests, now \in Times :
        Serve(PostProjectsRequest(req), Handle(PostProjectsRequest(req), now))

\* POST /api/projects/{project_name}/tables
PostTables ==
    \E req \in TableRequests :
        Serve(PostTablesRequest(req), Handle(PostTablesRequest(req), ""))

\* PUT .../{project_name}/tables/{layer}/{table_name}/transformations, sent
\* below /api/projects or below /api/tables
PutTransformations ==
    \E mount \in {"projects", "tables"}, req \in TransformationRequests :
        Serve(PutTransformationsRequest(mount, req),
              Handle(PutTransformationsRequest(mount, req), ""))

\* POST /api/compile/all
PostCompileAll ==
    \E req \in CompileRequests :
        Serve(PostCompileAllRequest(req),
              Handle(PostCompileAllRequest(req), ""))

\* POST /api/execute/validate
PostValidate ==
    \E req \in ValidateRequests :
        Serve(PostValidateRequest(req), Handle(PostValidateRequest(req), ""))

\* a ProjectManager method is called and returns or raises
Call(op, args, out) ==
    /\ disk' = out.disk
    /\ reply' = Called(op, args, out)
    /\ UNCHANGED NotStoreVars

\* ProjectManager().create_project(req)
CreateProjectCall ==
    \E req \in ProjectRequests, now \in Times :
        Call("create_project", req, CreateProject(disk, req, now))

\* ProjectManager().save_synthetic_data(project, layer, table, data, format)
SaveSyntheticDataCall ==
    \E data \in SyntheticDataValues, format \in FormatValues :
        Call("save_synthetic_data", [data |-> data, format |-> format],
             SaveSyntheticData(disk, TheTable.project_name, TheTable.layer,
                               TheTable.table_name, data, format))

\* ProjectManager().get_synthetic_data(project, layer, table)
GetSyntheticDataCall ==
    Call("get_synthetic_data", TheTable,
         GetSyntheticData(disk, TheTable.project_name, TheTable.layer,
                          TheTable.table_name))

StoreNext ==
    \/ PostProjects
    \/ PostTables
    \/ PutTransformations
    \/ PostCompileAll
    \/ PostValidate
    \/ CreateProjectCall
    \/ SaveSyntheticDataCall
    \/ GetSyntheticDataCall

SpecStore == StoreInit /\ [][StoreNext]_vars

----------------------------------------------------------------------------
\* The project store and the routes: properties

\* a file of the one table
TableFile(name) ==
    TablePath(TheTable.project_name, TheTable.layer, TheTable.table_name)
        \o <<name>>

\* C25: after a save_synthetic_data(project, layer, table, data, fmt) that
\* succeeded, the next get_synthetic_data of the table returns format = fmt
\* and row_count = len(data), whatever was saved for the table before.
CexC25_GetReturnsLastSaved ==
    [][(/\ reply.op = "save_synthetic_data"
        /\ reply.raised = ""
        /\ reply'.op = "get_synthetic_data")
       => /\ reply'.raised = ""
          /\ reply'.value.format = reply.args.format
          /\ reply'.value.row_count = Len(reply.args.data)]_vars

\* C26: create_project for a name that exists raises ValueError "Project
\* '<name>' already exists" (409 through the route) and leaves the disk as
\* it was: project.json, the layer folders and every file of every table.
ThmC26_DuplicateCreateChangesNothing ==
    [][/\ (/\ reply'.op = "create_project"
           /\ PathExists(disk, ProjectPath(reply'.args.name)))
          => /\ reply'.raised = "ValueError"
             /\ reply'.value =
                   <<"Project '", reply'.args.name, "' already exists">>
             /\ disk' = disk
       /\ (/\ reply'.op = "request"
           /\ reply'.method = "POST"
           /\ reply'.path = <<"api", "projects", "">>
           /\ PathExists(disk, ProjectPath(reply'.json.name)))
          => /\ reply'.status = 409
             /\ disk' = disk]_vars

\* create_project has raised for a project that holds a table with
\* synthetic data and validation results, and whose catalog differs from
\* the one of the request
WitC26_DuplicateOfFilledProject ==
    /\ reply.op = "create_project"
    /\ reply.raised = "ValueError"
    /\ {TableFile("transformations.json"), TableFile("synthetic_data.json"),
        TableFile("validation_results.json")} \subseteq DOMAIN disk.files
    /\ disk.files[<<"test_bank", "project.json">>].catalog # reply.args.catalog

\* C27: PUT /api/projects/{project}/tables/{layer}/{table}/transformations
\* on an existing table returns 200 and persists the submitted
\* transformations.
CexC27_PutBelowProjectsPersists ==
    [][(/\ reply'.op = "request"
        /\ reply'.method = "PUT"
        /\ reply'.path = TransformationsUrl("projects")
        /\ PathExists(disk, TableFile("transformations.json")))
       => /\ reply'.status = 200
          /\ disk'.files[TableFile("transformations.json")]
                = reply'.json.columns]_vars

====
